---- MODULE Spec2Model ----
(***************************************************************************)
(* Model of the xdgicons icon resolution engine (lookup.go, theme.go,      *)
(* utils.go and the directory/theme caches).                               *)
(*                                                                         *)
(* Go strings are TLA+ strings, Go slices are sequences, Go maps are       *)
(* functions whose DOMAIN is the set of keys present.  A Go function that  *)
(* reads or writes the IconLookup receives the lookup's state as a record  *)
(* `w` and returns the state it leaves behind together with its results.   *)
(***************************************************************************)
EXTENDS Integers, Sequences, FiniteSets, TLC

VARIABLES
    scn,            \* which installation (descriptors on disk, configuration) this run is about
    theme,          \* il.theme
    fallbackTheme,  \* il.fallbackTheme
    defaultSize,    \* il.defaultSize
    defaultScale,   \* il.defaultScale
    themeInfoCache, \* il.themeInfoCache : theme name -> ThemeInfo
    dirCache,       \* il.dirCache : base directory -> baseDirIconCache
    fsFiles,        \* the real filesystem: base directory -> regular icon files beneath it
    fsMtime,        \* the real filesystem: base directory -> its modification stamp
    fsPresent,      \* the real filesystem: base directory -> can it be stat'ed
    now,            \* wall clock, in seconds
    fsOps,          \* the real filesystem: number of changes made to it since construction
    last,           \* the call of the public API that has just returned, if the last step was one
    prev,           \* the two most recent calls that returned, kept while time passes (SpecCache)
    sz,             \* inputs and results of the sizing functions (SpecSizing)
    env,            \* the environment and the result of GetBaseDirs (SpecBaseDirs)
    th,             \* a descriptor and the Theme Record read from it (SpecTheme)
    conc,           \* the IconLookup shared by concurrent calls, and the calls (SpecConc)
    ld,             \* the descriptors on disk and the last getThemeInfo (SpecLoad)
    wk              \* a base directory's entries and a walk of it in progress (SpecWalk)

vars == <<scn, theme, fallbackTheme, defaultSize, defaultScale, prev,
          themeInfoCache, dirCache, fsFiles, fsMtime, fsPresent, fsOps, now, last, sz, env, th, conc,
                   ld, wk>>

engineVars == <<scn, theme, fallbackTheme, defaultSize, defaultScale, prev,
                themeInfoCache, dirCache, fsFiles, fsMtime, fsPresent, fsOps, now, last, env, th, conc,
                   ld, wk>>

-----------------------------------------------------------------------------
(* Bounds of the model.                                                    *)

\* width of the modelled Go int (two's complement); Go's is 64
IntBits == 16
\* number of icon files on disk at any time
MaxFiles == 2
\* the clock stops here
MaxTime == 5
\* number of changes made to the filesystem after construction
MaxFsOps == 1
\* largest display scale of a request or of a rule in SpecSizing
MaxScale == 2
\* depth of the Go call stack of findIconHelper
MaxDepth == 5
\* number of tokens of XDG_DATA_DIRS in SpecBaseDirs
MaxEnvLen == 5
\* number of names an Inherits key lists in SpecTheme
MaxInherits == 3
\* number of calls each goroutine makes in SpecConc
MaxCalls == 2

-----------------------------------------------------------------------------
(* Go int arithmetic.                                                      *)

MaxInt == 2 ^ (IntBits - 1) - 1
MinInt == 0 - 2 ^ (IntBits - 1)

Wrap(x) == ((x - MinInt) % (2 ^ IntBits)) + MinInt

Mul(a, b) == Wrap(a * b)
Sub(a, b) == Wrap(a - b)
Add(a, b) == Wrap(a + b)

abs(n) == IF n < 0 THEN Wrap(0 - n) ELSE n

Range(s) == {s[i] : i \in 1..Len(s)}

\* x := v; F(x) -- a Go local: v is computed once, then the rest of the function runs
Bind(v, F(_)) == CHOOSE y \in {F(x) : x \in {v}} : TRUE

-----------------------------------------------------------------------------
(* Types of types.go as used by lookup.go and theme.go.                    *)

ZeroSubDirIconInfo ==
    [Size |-> 0, Scale |-> 0, Type |-> "", MaxSize |-> 0, MinSize |-> 0, Threshold |-> 0]

ZeroThemeInfo ==
    [Name |-> "", Directories |-> <<>>, ScaledDirectories |-> <<>>,
     Inherits |-> <<>>, directoryMap |-> <<>>]

ZeroIcon ==
    [Name |-> "", Path |-> "", Size |-> 0, MinSize |-> 0, MaxSize |-> 0, Scale |-> 0]

\* themeInfo.directoryMap[subdir]: a missing key reads as the zero value
directoryMapGet(themeInfo, subdir) ==
    IF subdir \in DOMAIN themeInfo.directoryMap
    THEN themeInfo.directoryMap[subdir]
    ELSE ZeroSubDirIconInfo

\* append(themeInfo.Directories, themeInfo.ScaledDirectories...)
AllDirectories(themeInfo) == themeInfo.Directories \o themeInfo.ScaledDirectories

-----------------------------------------------------------------------------
(* Sizing rules.                                                           *)

\* directoryMatchesSize with the Threshold bounds exclusive
directoryMatchesSize_ThresholdStrict(themeInfo, subdir, iconSize, iconScale) ==
    LET subdirInfo == directoryMapGet(themeInfo, subdir) IN
    IF subdirInfo.Scale # iconScale THEN FALSE
    ELSE CASE subdirInfo.Type = "Fixed" ->
                subdirInfo.Size = iconSize
           [] subdirInfo.Type = "Scalable" ->
                subdirInfo.MinSize <= iconSize /\ iconSize <= subdirInfo.MaxSize
           [] subdirInfo.Type = "Threshold" ->
                /\ Sub(subdirInfo.Size, subdirInfo.Threshold) < iconSize
                /\ iconSize < Add(subdirInfo.Size, subdirInfo.Threshold)
           [] OTHER -> FALSE

\* directoryMatchesSize without the comparison of scales
directoryMatchesSize_ScaleIgnored(themeInfo, subdir, iconSize, iconScale) ==
    LET subdirInfo == directoryMapGet(themeInfo, subdir) IN
    CASE subdirInfo.Type = "Fixed" ->
            subdirInfo.Size = iconSize
      [] subdirInfo.Type = "Scalable" ->
            subdirInfo.MinSize <= iconSize /\ iconSize <= subdirInfo.MaxSize
      [] subdirInfo.Type = "Threshold" ->
            /\ Sub(subdirInfo.Size, subdirInfo.Threshold) <= iconSize
            /\ iconSize <= Add(subdirInfo.Size, subdirInfo.Threshold)
      [] OTHER -> FALSE

directoryMatchesSize(themeInfo, subdir, iconSize, iconScale) ==
    LET subdirInfo == directoryMapGet(themeInfo, subdir) IN
    IF subdirInfo.Scale # iconScale THEN FALSE
    ELSE CASE subdirInfo.Type = "Fixed" ->
                subdirInfo.Size = iconSize
           [] subdirInfo.Type = "Scalable" ->
                subdirInfo.MinSize <= iconSize /\ iconSize <= subdirInfo.MaxSize
           [] subdirInfo.Type = "Threshold" ->
                /\ Sub(subdirInfo.Size, subdirInfo.Threshold) <= iconSize
                /\ iconSize <= Add(subdirInfo.Size, subdirInfo.Threshold)
           [] OTHER -> FALSE

\* directorySizeDistance comparing plain sizes, the scales left out
directorySizeDistance_Unscaled(themeInfo, subdir, iconSize, iconScale) ==
    LET subdirInfo == directoryMapGet(themeInfo, subdir) IN
    CASE subdirInfo.Type = "Fixed" ->
            abs(Sub(subdirInfo.Size, iconSize))
      [] subdirInfo.Type \in {"Scalable", "Threshold"} ->
            IF iconSize < subdirInfo.MinSize THEN Sub(subdirInfo.MinSize, iconSize)
            ELSE IF iconSize > subdirInfo.MaxSize THEN Sub(iconSize, subdirInfo.MaxSize)
            ELSE 0
      [] OTHER -> 0

directorySizeDistance(themeInfo, subdir, iconSize, iconScale) ==
    LET subdirInfo == directoryMapGet(themeInfo, subdir)
        req == Mul(iconSize, iconScale)
    IN
    CASE subdirInfo.Type = "Fixed" ->
            abs(Sub(Mul(subdirInfo.Size, subdirInfo.Scale), req))
      [] subdirInfo.Type = "Scalable" ->
            IF req < Mul(subdirInfo.MinSize, subdirInfo.Scale)
            THEN Sub(Mul(subdirInfo.MinSize, subdirInfo.Scale), req)
            ELSE IF req > Mul(subdirInfo.MaxSize, subdirInfo.Scale)
            THEN Sub(req, Mul(subdirInfo.MaxSize, subdirInfo.Scale))
            ELSE 0
      [] subdirInfo.Type = "Threshold" ->
            IF req < Mul(Sub(subdirInfo.Size, subdirInfo.Threshold), subdirInfo.Scale)
            THEN Sub(Mul(subdirInfo.MinSize, subdirInfo.Scale), req)
            ELSE IF req > Mul(Add(subdirInfo.Size, subdirInfo.Threshold), subdirInfo.Scale)
            THEN Sub(req, Mul(subdirInfo.MaxSize, subdirInfo.Scale))
            ELSE 0
      [] OTHER -> 0

-----------------------------------------------------------------------------
(* Base directories and paths.                                             *)

\* path.Join of non-empty, clean elements
Join2(a, b) == a \o "/" \o b

\* An environment value or a path is a sequence of tokens: "/" and ":" are
\* tokens of their own, every other token is a non-empty name holding neither
\* of them and different from "." and "..".
\* the string a sequence of tokens spells
RECURSIVE Str(_)
Str(p) == IF p = <<>> THEN "" ELSE p[1] \o Str(Tail(p))

\* strings.Split(s, ":") from position i on, cur being the element under way
RECURSIVE SplitFrom(_, _, _)
SplitFrom(s, i, cur) ==
    IF i > Len(s) THEN <<cur>>
    ELSE IF s[i] = ":" THEN <<cur>> \o SplitFrom(s, i + 1, <<>>)
    ELSE SplitFrom(s, i + 1, Append(cur, s[i]))

\* strings.Split(s, ":"): one element more than there are colons, "" included
Split(s) == SplitFrom(s, 1, <<>>)

\* path.Clean, on paths without "." and ".." elements: runs of slashes become
\* one slash, a trailing slash goes unless the path is the root, "" becomes "."
RECURSIVE CollapseSlashes(_)
CollapseSlashes(p) ==
    IF Len(p) < 2 THEN p
    ELSE IF p[1] = "/" /\ p[2] = "/" THEN CollapseSlashes(Tail(p))
    ELSE <<p[1]>> \o CollapseSlashes(Tail(p))

Clean(p) ==
    LET c == CollapseSlashes(p)
    IN  IF c = <<>> THEN <<".">>
        ELSE IF Len(c) > 1 /\ c[Len(c)] = "/" THEN SubSeq(c, 1, Len(c) - 1)
        ELSE c

\* path.Join(a, b): empty elements are left out, the rest is joined and cleaned
Join(a, b) ==
    IF a = <<>> /\ b = <<>> THEN <<>>
    ELSE IF a = <<>> THEN Clean(b)
    ELSE IF b = <<>> THEN Clean(a)
    ELSE Clean(a \o <<"/">> \o b)

pixmapDir == <<"/", "usr", "/", "share", "/", "pixmaps">>

\* mutant of GetBaseDirsIn: the pixmap directory is put before the data directories
GetBaseDirsIn_PixmapBeforeData(homeDir, xdgDataDirs) ==
    LET dataDirs == Split(xdgDataDirs)
        home == IF homeDir # <<>> THEN <<Join(homeDir, <<".icons">>)>> ELSE <<>>
        data == [i \in 1..Len(dataDirs) |-> Join(dataDirs[i], <<"icons">>)]
    IN  home \o <<pixmapDir>> \o data

\* GetBaseDirs, as a function of os.Getenv("HOME") and os.Getenv("XDG_DATA_DIRS")
\* (<<>> when unset or empty): the paths, in order
GetBaseDirsIn(homeDir, xdgDataDirs) ==
    LET dataDirs == Split(xdgDataDirs)
        home == IF homeDir # <<>> THEN <<Join(homeDir, <<".icons">>)>> ELSE <<>>
        data == [i \in 1..Len(dataDirs) |-> Join(dataDirs[i], <<"icons">>)]
    IN  home \o data \o <<pixmapDir>>

\* os.Getenv("HOME") in the engine's runs; "" is unset
HomeDir == ""
\* strings.Split(os.Getenv("XDG_DATA_DIRS"), ":") in the engine's runs
DataDirs == <<"/usr/share">>

\* GetBaseDirs() in the engine's runs: GetBaseDirsIn under HOME unset and
\* XDG_DATA_DIRS = /usr/share, as strings
GetBaseDirs ==
    LET home == IF HomeDir # "" THEN <<Join2(HomeDir, ".icons")>> ELSE <<>>
        data == [i \in 1..Len(DataDirs) |-> Join2(DataDirs[i], "icons")]
    IN  home \o data \o <<"/usr/share/pixmaps">>

BaseDirSet == Range(GetBaseDirs)

\* il.extensions, as given in LookupConfig.Extensions
extensions == <<"png", "svg">>

\* path.Join(directory, theme, subdir, iconName+"."+extension)
ThemedIconPath(directory, themeName, subdir, iconName, extension) ==
    Join2(Join2(Join2(directory, themeName), subdir), iconName \o "." \o extension)

\* path.Join(directory, iconName+"."+extension)
FallbackIconPath(directory, iconName, extension) ==
    Join2(directory, iconName \o "." \o extension)

\* path.Join(directory, theme, "index.theme")
IndexPath(directory, themeName) == Join2(Join2(directory, themeName), "index.theme")

-----------------------------------------------------------------------------
(* Theme descriptors (index.theme) and readThemeIndex.                     *)
(* A descriptor is what ini.Load sees: whether the file loads, the keys of *)
(* [Icon Theme], and one record of keys per section present.  A key is     *)
(* [has, ok, val]: present or not, parses as an integer or not, its value. *)

IntKey(v) == [has |-> TRUE, ok |-> TRUE, val |-> v]
NoKey == [has |-> FALSE, ok |-> FALSE, val |-> 0]
\* a key whose value is not an integer
BadKey == [has |-> TRUE, ok |-> FALSE, val |-> 0]
StrKey(s) == [has |-> TRUE, val |-> s]
NoStrKey == [has |-> FALSE, val |-> ""]
ListKey(l) == [has |-> TRUE, val |-> l]
NoListKey == [has |-> FALSE, val |-> <<>>]

\* key.MustInt(def): the value, or def when it does not parse
MustInt(key, def) == IF key.ok THEN key.val ELSE def

\* key.MustString(def): the value, or def when it is empty
MustString(key, def) == IF key.val = "" THEN def ELSE key.val

\* ReadSubDir whose MinSize, when absent, follows MaxSize instead of Size
ReadSubDir_MinSizeFromMaxSize(sec) ==
    LET size == sec.Size.val
        maxSize == IF ~sec.MaxSize.has THEN size ELSE MustInt(sec.MaxSize, size)
    IN
    [Size      |-> size,
     Scale     |-> IF ~sec.Scale.has THEN 1 ELSE MustInt(sec.Scale, 1),
     Type      |-> IF ~sec.Type.has THEN "Threshold" ELSE MustString(sec.Type, "Threshold"),
     MaxSize   |-> maxSize,
     MinSize   |-> IF ~sec.MinSize.has THEN maxSize ELSE MustInt(sec.MinSize, size),
     Threshold |-> IF ~sec.Threshold.has THEN 2 ELSE MustInt(sec.Threshold, 2)]

\* lines 119-158 of readThemeIndex: the rule of one [subdir] section
ReadSubDir(sec) ==
    LET size == sec.Size.val IN
    [Size      |-> size,
     Scale     |-> IF ~sec.Scale.has THEN 1 ELSE MustInt(sec.Scale, 1),
     Type      |-> IF ~sec.Type.has THEN "Threshold" ELSE MustString(sec.Type, "Threshold"),
     MaxSize   |-> IF ~sec.MaxSize.has THEN size ELSE MustInt(sec.MaxSize, size),
     MinSize   |-> IF ~sec.MinSize.has THEN size ELSE MustInt(sec.MinSize, size),
     Threshold |-> IF ~sec.Threshold.has THEN 2 ELSE MustInt(sec.Threshold, 2)]

\* readThemeIndex that never appends hicolor to Inherits
readThemeIndex_NoSentinel(themeName, d) ==
    LET inherits0 == IF d.Inherits.has THEN d.Inherits.val ELSE <<>>
        inherits  == inherits0
        scaled    == IF d.ScaledDirectories.has THEN d.ScaledDirectories.val ELSE <<>>
        dirs      == d.Directories.val \o scaled
        sectionOk(dir) ==
            /\ dir \in DOMAIN d.sections
            /\ d.sections[dir].Size.has
            /\ d.sections[dir].Size.ok
        fail == [err |-> TRUE, info |-> ZeroThemeInfo]
    IN
    IF ~d.loads \/ ~d.hasMain \/ ~d.Name.has \/ ~d.Directories.has THEN fail
    ELSE IF \E i \in 1..Len(dirs) : ~sectionOk(dirs[i]) THEN fail
    ELSE [err  |-> FALSE,
          info |-> [Name              |-> d.Name.val,
                    Directories       |-> d.Directories.val,
                    ScaledDirectories |-> scaled,
                    Inherits          |-> inherits,
                    directoryMap      |-> [dir \in Range(dirs) |-> ReadSubDir(d.sections[dir])]]]

\* readThemeIndex putting hicolor in front of every Inherits list
readThemeIndex_SentinelFirst(themeName, d) ==
    LET r == readThemeIndex_NoSentinel(themeName, d)
    IN  IF r.err THEN r ELSE [r EXCEPT !.info.Inherits = <<"hicolor">> \o @]

\* readThemeIndex that leaves out the rule of a subdirectory whose section or Size is
\* missing instead of failing
readThemeIndex_PartialOnMissingSection(themeName, d) ==
    LET r == readThemeIndex_NoSentinel(themeName, d)
        scaled    == IF d.ScaledDirectories.has THEN d.ScaledDirectories.val ELSE <<>>
        dirs      == d.Directories.val \o scaled
        sectionOk(dir) ==
            /\ dir \in DOMAIN d.sections
            /\ d.sections[dir].Size.has
            /\ d.sections[dir].Size.ok
    IN
    IF ~d.loads \/ ~d.hasMain \/ ~d.Name.has \/ ~d.Directories.has THEN r
    ELSE [err  |-> FALSE,
          info |-> [Name              |-> d.Name.val,
                    Directories       |-> d.Directories.val,
                    ScaledDirectories |-> scaled,
                    Inherits          |-> IF d.Inherits.has THEN d.Inherits.val ELSE <<>>,
                    directoryMap      |-> [dir \in {x \in Range(dirs) : sectionOk(x)} |->
                                              ReadSubDir(d.sections[dir])]]]

\* readThemeIndex: [err, info]
readThemeIndex(themeName, d) ==
    LET inherits0 == IF d.Inherits.has THEN d.Inherits.val ELSE <<>>
        inherits  == IF themeName # "hicolor" /\ "hicolor" \notin Range(inherits0)
                     THEN Append(inherits0, "hicolor")
                     ELSE inherits0
        scaled    == IF d.ScaledDirectories.has THEN d.ScaledDirectories.val ELSE <<>>
        dirs      == d.Directories.val \o scaled
        sectionOk(dir) ==
            /\ dir \in DOMAIN d.sections
            /\ d.sections[dir].Size.has
            /\ d.sections[dir].Size.ok
        fail == [err |-> TRUE, info |-> ZeroThemeInfo]
    IN
    IF ~d.loads \/ ~d.hasMain \/ ~d.Name.has \/ ~d.Directories.has THEN fail
    ELSE IF \E i \in 1..Len(dirs) : ~sectionOk(dirs[i]) THEN fail
    ELSE [err  |-> FALSE,
          info |-> [Name              |-> d.Name.val,
                    Directories       |-> d.Directories.val,
                    ScaledDirectories |-> scaled,
                    Inherits          |-> inherits,
                    directoryMap      |-> [dir \in Range(dirs) |-> ReadSubDir(d.sections[dir])]]]

-----------------------------------------------------------------------------
(* The state a call works on.                                              *)
(*   tic, dc       il.themeInfoCache and il.dirCache                       *)
(*   files, mtime, present, idx   the filesystem the call reads            *)
(*   now           time.Now()                                              *)
(*   walks         directory walks made so far                             *)
(*   dropped       whether a snapshot was deleted from il.dirCache         *)
(*   crashed       whether the Go stack was exhausted                      *)

\* il.cacheValidCheckInterval, in seconds
cacheValidCheckInterval == 5

\* filepath.WalkDir(dirPath, ...): every entry beneath dirPath that is not a directory
WalkDir(w, dirPath) ==
    w.files[dirPath] \cup {IndexPath(k[1], k[2]) : k \in {j \in DOMAIN w.idx : j[1] = dirPath}}

clearThemeInfoCache(w) == [w EXCEPT !.tic = <<>>]

\* cacheBaseDirectory: the state it leaves (its error is ignored by every caller)
cacheBaseDirectory(w, dirPath) ==
    IF ~w.present[dirPath] THEN w
    ELSE LET files == WalkDir(w, dirPath)
             c     == clearThemeInfoCache(w)
             entry == [files |-> files, mtime |-> w.mtime[dirPath], lastStat |-> w.now]
         IN  [c EXCEPT !.dc = [b \in DOMAIN c.dc \cup {dirPath} |->
                                    IF b = dirPath THEN entry ELSE c.dc[b]],
                       !.walks = c.walks + 1]

\* cacheBaseDirectory step by step, for the runs in which the filesystem changes while
\* it is at work.  Line 27, os.Stat(dirPath): [err, mtime]
cacheBaseDirectoryStat(w, dirPath) ==
    [err |-> ~w.present[dirPath], mtime |-> w.mtime[dirPath]]

\* cacheBaseDirectoryStore reading the modification time once the walk is over
cacheBaseDirectoryStore_StatAfterWalk(w, dirPath, stat, files) ==
    LET c     == clearThemeInfoCache(w)
        entry == [files |-> files, mtime |-> w.mtime[dirPath], lastStat |-> w.now]
    IN  [c EXCEPT !.dc = [b \in DOMAIN c.dc \cup {dirPath} |->
                               IF b = dirPath THEN entry ELSE c.dc[b]],
                  !.walks = c.walks + 1]

\* lines 48-53: the snapshot made of the walk's files and of the modification time
\* that line 27 read before the walk
cacheBaseDirectoryStore(w, dirPath, stat, files) ==
    LET c     == clearThemeInfoCache(w)
        entry == [files |-> files, mtime |-> stat.mtime, lastStat |-> w.now]
    IN  [c EXCEPT !.dc = [b \in DOMAIN c.dc \cup {dirPath} |->
                               IF b = dirPath THEN entry ELSE c.dc[b]],
                  !.walks = c.walks + 1]

\* createInitialCache: cacheBaseDirectory for GetBaseDirs()[i..]
RECURSIVE createInitialCache(_, _)
createInitialCache(w, i) ==
    IF i > Len(GetBaseDirs) THEN w
    ELSE createInitialCache(cacheBaseDirectory(w, GetBaseDirs[i]), i + 1)

\* delete(il.dirCache, baseDir)
dirCacheDelete(w, baseDir) ==
    [w EXCEPT !.dc = [b \in DOMAIN w.dc \ {baseDir} |-> w.dc[b]],
              !.dropped = w.dropped \/ baseDir \in DOMAIN w.dc]

\* shouldRefreshCache that never asks for a refresh of a directory it has a snapshot of
shouldRefreshCache_KeepSnapshot(w, baseDir, hasEntry, cacheEntry) ==
    IF ~hasEntry THEN [w |-> w, refresh |-> TRUE]
    ELSE IF w.now - cacheEntry.lastStat < cacheValidCheckInterval
    THEN [w |-> w, refresh |-> FALSE]
    ELSE IF ~w.present[baseDir]
    THEN [w |-> dirCacheDelete(w, baseDir), refresh |-> FALSE]
    ELSE [w |-> w, refresh |-> FALSE]

\* shouldRefreshCache asking for a refresh of every stale snapshot, the modification
\* time not compared
shouldRefreshCache_ModTimeIgnored(w, baseDir, hasEntry, cacheEntry) ==
    IF ~hasEntry THEN [w |-> w, refresh |-> TRUE]
    ELSE IF w.now - cacheEntry.lastStat < cacheValidCheckInterval
    THEN [w |-> w, refresh |-> FALSE]
    ELSE IF ~w.present[baseDir]
    THEN [w |-> dirCacheDelete(w, baseDir), refresh |-> FALSE]
    ELSE [w |-> w, refresh |-> TRUE]

\* shouldRefreshCache: [w, refresh]; hasEntry is cacheEntry != nil
shouldRefreshCache(w, baseDir, hasEntry, cacheEntry) ==
    IF ~hasEntry THEN [w |-> w, refresh |-> TRUE]
    ELSE IF w.now - cacheEntry.lastStat < cacheValidCheckInterval
    THEN [w |-> w, refresh |-> FALSE]
    ELSE IF ~w.present[baseDir]
    THEN [w |-> dirCacheDelete(w, baseDir), refresh |-> FALSE]
    ELSE [w |-> w, refresh |-> w.mtime[baseDir] # cacheEntry.mtime]

\* snapshotHas that answers from the size of the snapshot instead of the path
snapshotHas_NonEmpty(cacheEntry, iconPath) == cacheEntry.files # {}

\* cacheEntry.files[iconPath]
snapshotHas(cacheEntry, iconPath) == iconPath \in cacheEntry.files

\* fileExists that takes every snapshot for stale and validates it on each query
fileExists_AlwaysValidate(w, baseDir, iconPath) ==
    LET exists == baseDir \in DOMAIN w.dc
        entry0 == IF exists THEN w.dc[baseDir]
                  ELSE [files |-> {}, mtime |-> 0, lastStat |-> 0]
    IN
    IF ~exists \/ ~w.present[baseDir] \/ w.mtime[baseDir] # entry0.mtime
    THEN Bind(cacheBaseDirectory(w, baseDir), LAMBDA cached :
         [w  |-> cached,
          ok |-> baseDir \in DOMAIN cached.dc
                 /\ snapshotHas(cached.dc[baseDir], iconPath)])
    ELSE [w  |-> [w EXCEPT !.dc[baseDir].lastStat = w.now],
          ok |-> snapshotHas(entry0, iconPath)]

\* fileExists: [w, ok].  cacheEntry is a pointer: after shouldRefreshCache has
\* deleted the entry from the map, the local pointer still reaches the old snapshot.
fileExists(w, baseDir, iconPath) ==
    LET exists == baseDir \in DOMAIN w.dc
        entry0 == IF exists THEN w.dc[baseDir]
                  ELSE [files |-> {}, mtime |-> 0, lastStat |-> 0]
        stale  == ~exists \/ w.now - entry0.lastStat >= cacheValidCheckInterval
    IN
    IF ~stale THEN [w |-> w, ok |-> snapshotHas(entry0, iconPath)]
    ELSE Bind(shouldRefreshCache(w, baseDir, exists, entry0), LAMBDA sr :
         IF sr.refresh
         THEN Bind(cacheBaseDirectory(sr.w, baseDir), LAMBDA cached :
              [w  |-> cached,
               ok |-> baseDir \in DOMAIN cached.dc
                      /\ snapshotHas(cached.dc[baseDir], iconPath)])
         ELSE IF exists
         THEN [w  |-> IF baseDir \in DOMAIN sr.w.dc
                      THEN [sr.w EXCEPT !.dc[baseDir].lastStat = w.now]
                      ELSE sr.w,
               ok |-> snapshotHas(entry0, iconPath)]
         ELSE [w |-> sr.w, ok |-> FALSE])

\* getThemeInfoFrom giving up at the first index.theme that exists but does not parse
RECURSIVE getThemeInfoFrom_StopsAtUnusable(_, _, _)
getThemeInfoFrom_StopsAtUnusable(w, themeName, i) ==
    IF i > Len(GetBaseDirs)
    THEN [w |-> w, err |-> TRUE, info |-> ZeroThemeInfo]
    ELSE LET directory == GetBaseDirs[i]
             statOk == w.present[directory] /\ <<directory, themeName>> \in DOMAIN w.idx
         IN  IF ~statOk THEN getThemeInfoFrom_StopsAtUnusable(w, themeName, i + 1)
             ELSE Bind(readThemeIndex(themeName, w.idx[<<directory, themeName>>]), LAMBDA x :
                  IF x.err THEN [w |-> w, err |-> TRUE, info |-> ZeroThemeInfo]
                  ELSE [w    |-> [w EXCEPT !.tic = [t \in DOMAIN w.tic \cup {themeName} |->
                                                       IF t = themeName THEN x.info
                                                       ELSE w.tic[t]]],
                        err  |-> FALSE,
                        info |-> x.info])

\* getThemeInfo, the loop over GetBaseDirs()[i..]: [w, err, info]
RECURSIVE getThemeInfoFrom(_, _, _)
getThemeInfoFrom(w, themeName, i) ==
    IF i > Len(GetBaseDirs)
    THEN [w |-> w, err |-> TRUE, info |-> ZeroThemeInfo]
    ELSE LET directory == GetBaseDirs[i]
             statOk == w.present[directory] /\ <<directory, themeName>> \in DOMAIN w.idx
             \* a failed os.Stat or readThemeIndex is `continue`
             r == IF statOk THEN readThemeIndex(themeName, w.idx[<<directory, themeName>>])
                  ELSE [err |-> TRUE, info |-> ZeroThemeInfo]
         IN  Bind(r, LAMBDA x :
             IF x.err THEN getThemeInfoFrom(w, themeName, i + 1)
             ELSE [w    |-> [w EXCEPT !.tic = [t \in DOMAIN w.tic \cup {themeName} |->
                                                  IF t = themeName THEN x.info ELSE w.tic[t]]],
                   err  |-> FALSE,
                   info |-> x.info])

getThemeInfo(w, themeName) ==
    IF themeName \in DOMAIN w.tic
    THEN [w |-> w, err |-> FALSE, info |-> w.tic[themeName]]
    ELSE getThemeInfoFrom(w, themeName, 1)

-----------------------------------------------------------------------------
(* lookupIcon.                                                             *)

\* the three nested loops of lookupIcon, flattened: the k-th (subdir, directory,
\* extension) in iteration order
NumCandidates(themeInfo) ==
    Len(AllDirectories(themeInfo)) * Len(GetBaseDirs) * Len(extensions)

\* Candidate with the extension loop outside the base directory loop
Candidate_ExtensionMajor(themeInfo, k) ==
    LET nb == Len(GetBaseDirs)
        ne == Len(extensions)
    IN  [subdir    |-> AllDirectories(themeInfo)[((k - 1) \div (nb * ne)) + 1],
         directory |-> GetBaseDirs[((k - 1) % nb) + 1],
         extension |-> extensions[(((k - 1) \div nb) % ne) + 1]]

Candidate(themeInfo, k) ==
    LET nb == Len(GetBaseDirs)
        ne == Len(extensions)
    IN  [subdir    |-> AllDirectories(themeInfo)[((k - 1) \div (nb * ne)) + 1],
         directory |-> GetBaseDirs[(((k - 1) \div ne) % nb) + 1],
         extension |-> extensions[((k - 1) % ne) + 1]]

\* MakeIcon that forgets to copy the rule's scale
MakeIcon_ScaleNotCopied(themeInfo, subdir, iconName, iconPath) ==
    LET iconInfo == directoryMapGet(themeInfo, subdir) IN
    [Name    |-> iconName,
     Path    |-> iconPath,
     Size    |-> iconInfo.Size,
     MinSize |-> iconInfo.MinSize,
     MaxSize |-> iconInfo.MaxSize,
     Scale   |-> 0]

\* Icon{Name, Path, Size, MinSize, MaxSize, Scale} from themeInfo.directoryMap[subdir]
MakeIcon(themeInfo, subdir, iconName, iconPath) ==
    LET iconInfo == directoryMapGet(themeInfo, subdir) IN
    [Name    |-> iconName,
     Path    |-> iconPath,
     Size    |-> iconInfo.Size,
     MinSize |-> iconInfo.MinSize,
     MaxSize |-> iconInfo.MaxSize,
     Scale   |-> iconInfo.Scale]

\* lookupIcon, first loop (lines 152-172) from candidate k on: [w, err, icon]
RECURSIVE lookupIconPassOne(_, _, _, _, _, _, _)
lookupIconPassOne(w, themeInfo, themeName, iconName, size, scale, k) ==
    IF k > NumCandidates(themeInfo)
    THEN [w |-> w, err |-> TRUE, icon |-> ZeroIcon]
    ELSE LET c == Candidate(themeInfo, k)
             iconPath == ThemedIconPath(c.directory, themeName, c.subdir, iconName, c.extension)
             \* fileExists is called only for a subdirectory that matches
             e == IF directoryMatchesSize(themeInfo, c.subdir, size, scale)
                  THEN fileExists(w, c.directory, iconPath)
                  ELSE [w |-> w, ok |-> FALSE]
         IN  Bind(e, LAMBDA x :
             IF x.ok
             THEN [w |-> x.w, err |-> FALSE,
                   icon |-> MakeIcon(themeInfo, c.subdir, iconName, iconPath)]
             ELSE lookupIconPassOne(x.w, themeInfo, themeName, iconName, size, scale, k + 1))

\* lookupIcon, second loop (lines 174-190) from candidate k on: [w, closestFilename,
\* closestSubdir]; best is [minimalSize, closestFilename, closestSubdir] so far
RECURSIVE lookupIconPassTwo(_, _, _, _, _, _, _, _)
lookupIconPassTwo(w, themeInfo, themeName, iconName, size, scale, k, best) ==
    IF k > NumCandidates(themeInfo)
    THEN [w |-> w, closestFilename |-> best.closestFilename,
          closestSubdir |-> best.closestSubdir]
    ELSE LET c == Candidate(themeInfo, k)
             iconPath == ThemedIconPath(c.directory, themeName, c.subdir, iconName, c.extension)
             d == directorySizeDistance(themeInfo, c.subdir, size, scale)
         IN  Bind(fileExists(w, c.directory, iconPath), LAMBDA e :
             lookupIconPassTwo(e.w, themeInfo, themeName, iconName, size, scale, k + 1,
                               IF e.ok /\ d < best.minimalSize
                               THEN [minimalSize |-> d, closestFilename |-> iconPath,
                                     closestSubdir |-> c.subdir]
                               ELSE best))

\* lookupIconIn without its first loop: the closest size wins even over an exact match
lookupIconIn_ClosestOnly(w, themeInfo, iconName, size, scale, themeName) ==
    Bind(lookupIconPassTwo(w, themeInfo, themeName, iconName, size, scale, 1,
                           [minimalSize |-> MaxInt, closestFilename |-> "",
                            closestSubdir |-> ""]), LAMBDA two :
         IF two.closestFilename # ""
         THEN [w |-> two.w, err |-> FALSE,
               icon |-> MakeIcon(themeInfo, two.closestSubdir, iconName,
                                 two.closestFilename)]
         ELSE [w |-> two.w, err |-> TRUE, icon |-> ZeroIcon])

\* lookupIconIn without its second loop: only an exact size match is ever returned
lookupIconIn_ExactOnly(w, themeInfo, iconName, size, scale, themeName) ==
    lookupIconPassOne(w, themeInfo, themeName, iconName, size, scale, 1)

\* lookupIcon after getThemeInfo has succeeded: [w, err, icon]
lookupIconIn(w, themeInfo, iconName, size, scale, themeName) ==
    Bind(lookupIconPassOne(w, themeInfo, themeName, iconName, size, scale, 1), LAMBDA one :
    IF ~one.err THEN one
    ELSE Bind(lookupIconPassTwo(one.w, themeInfo, themeName, iconName, size, scale, 1,
                                [minimalSize |-> MaxInt, closestFilename |-> "",
                                 closestSubdir |-> ""]), LAMBDA two :
         IF two.closestFilename # ""
         THEN [w |-> two.w, err |-> FALSE,
               icon |-> MakeIcon(themeInfo, two.closestSubdir, iconName,
                                 two.closestFilename)]
         ELSE [w |-> two.w, err |-> TRUE, icon |-> ZeroIcon]))

\* lookupIcon: [w, err, icon]
lookupIcon(w, iconName, size, scale, themeName) ==
    Bind(getThemeInfo(w, themeName), LAMBDA g :
    IF g.err THEN [w |-> g.w, err |-> TRUE, icon |-> ZeroIcon]
    ELSE lookupIconIn(g.w, g.info, iconName, size, scale, themeName))

RECURSIVE lookupFallbackIconFrom_ExtensionMajor(_, _, _)
\* lookupFallbackIconFrom with the extension loop outside the base directory loop
lookupFallbackIconFrom_ExtensionMajor(w, iconName, k) ==
    IF k > Len(GetBaseDirs) * Len(extensions)
    THEN [w |-> w, err |-> TRUE, icon |-> ZeroIcon]
    ELSE LET directory == GetBaseDirs[((k - 1) % Len(GetBaseDirs)) + 1]
             extension == extensions[((k - 1) \div Len(GetBaseDirs)) + 1]
             iconPath  == FallbackIconPath(directory, iconName, extension)
         IN  Bind(fileExists(w, directory, iconPath), LAMBDA e :
             IF e.ok
             THEN [w |-> e.w, err |-> FALSE,
                   icon |-> [ZeroIcon EXCEPT !.Name = iconName, !.Path = iconPath]]
             ELSE lookupFallbackIconFrom_ExtensionMajor(e.w, iconName, k + 1))

\* lookupFallbackIcon, the loops flattened, from the k-th (directory, extension) on
RECURSIVE lookupFallbackIconFrom(_, _, _)
lookupFallbackIconFrom(w, iconName, k) ==
    IF k > Len(GetBaseDirs) * Len(extensions)
    THEN [w |-> w, err |-> TRUE, icon |-> ZeroIcon]
    ELSE LET directory == GetBaseDirs[((k - 1) \div Len(extensions)) + 1]
             extension == extensions[((k - 1) % Len(extensions)) + 1]
             iconPath  == FallbackIconPath(directory, iconName, extension)
         IN  Bind(fileExists(w, directory, iconPath), LAMBDA e :
             IF e.ok
             THEN [w |-> e.w, err |-> FALSE,
                   icon |-> [ZeroIcon EXCEPT !.Name = iconName, !.Path = iconPath]]
             ELSE lookupFallbackIconFrom(e.w, iconName, k + 1))

lookupFallbackIcon(w, iconName) == lookupFallbackIconFrom(w, iconName, 1)

-----------------------------------------------------------------------------
(* findIconHelper and FindIcon.                                            *)

\* findIconHelper, with its recursion turned into an explicit stack of frames still to
\* run: [w, err, icon].  todo[1] is the call findIconHelper(.., theme) about to start,
\* at Go stack depth `depth`; the frames behind it are the parents that the enclosing
\* loops over themeInfo.Inherits reach if it fails.  A call that fails (theme not loaded,
\* or nothing found in it or its parents) makes its caller's loop go on with the next
\* frame; the first success is returned through every caller.
RECURSIVE findIconHelperRun_ParentsReversed(_, _, _, _, _)
RECURSIVE findIconHelperRun_AbortOnUnusable(_, _, _, _, _)
RECURSIVE findIconHelperRun(_, _, _, _, _)
\* findIconHelperRun in which a theme that does not load ends the whole traversal
findIconHelperRun_AbortOnUnusable(w, iconName, size, scale, todo) ==
    IF todo = <<>> THEN [w |-> w, err |-> TRUE, icon |-> ZeroIcon]
    ELSE IF todo[1].depth > MaxDepth
    THEN [w |-> [w EXCEPT !.crashed = TRUE], err |-> TRUE, icon |-> ZeroIcon]
    ELSE Bind(getThemeInfo(w, todo[1].theme), LAMBDA g :
         IF g.err
         THEN [w |-> g.w, err |-> TRUE, icon |-> ZeroIcon]
         ELSE Bind(lookupIcon(g.w, iconName, size, scale, todo[1].theme), LAMBDA l :
              IF ~l.err THEN l
              ELSE findIconHelperRun_AbortOnUnusable(l.w, iconName, size, scale,
                       [i \in 1..Len(g.info.Inherits) |->
                           [theme |-> g.info.Inherits[i], depth |-> todo[1].depth + 1]]
                       \o Tail(todo))))

\* findIconHelperRun visiting the parents of a theme last-listed first
findIconHelperRun_ParentsReversed(w, iconName, size, scale, todo) ==
    IF todo = <<>> THEN [w |-> w, err |-> TRUE, icon |-> ZeroIcon]
    ELSE IF todo[1].depth > MaxDepth
    THEN [w |-> [w EXCEPT !.crashed = TRUE], err |-> TRUE, icon |-> ZeroIcon]
    ELSE Bind(getThemeInfo(w, todo[1].theme), LAMBDA g :
         IF g.err
         THEN findIconHelperRun_ParentsReversed(g.w, iconName, size, scale, Tail(todo))
         ELSE Bind(lookupIcon(g.w, iconName, size, scale, todo[1].theme), LAMBDA l :
              IF ~l.err THEN l
              ELSE findIconHelperRun_ParentsReversed(l.w, iconName, size, scale,
                       [i \in 1..Len(g.info.Inherits) |->
                           [theme |-> g.info.Inherits[Len(g.info.Inherits) + 1 - i],
                            depth |-> todo[1].depth + 1]]
                       \o Tail(todo))))

findIconHelperRun(w, iconName, size, scale, todo) ==
    IF todo = <<>> THEN [w |-> w, err |-> TRUE, icon |-> ZeroIcon]
    ELSE IF todo[1].depth > MaxDepth
    THEN [w |-> [w EXCEPT !.crashed = TRUE], err |-> TRUE, icon |-> ZeroIcon]
    ELSE Bind(getThemeInfo(w, todo[1].theme), LAMBDA g :
         IF g.err
         THEN findIconHelperRun(g.w, iconName, size, scale, Tail(todo))
         ELSE Bind(lookupIcon(g.w, iconName, size, scale, todo[1].theme), LAMBDA l :
              IF ~l.err THEN l
              ELSE findIconHelperRun(l.w, iconName, size, scale,
                       [i \in 1..Len(g.info.Inherits) |->
                           [theme |-> g.info.Inherits[i], depth |-> todo[1].depth + 1]]
                       \o Tail(todo))))

findIconHelper(w, iconName, size, scale, themeName) ==
    findIconHelperRun(w, iconName, size, scale, <<[theme |-> themeName, depth |-> 1]>>)

\* FindIcon: [w, err, icon, tier]; tier names the return statement taken
FindIcon(w, cfg, iconName, size, scale) ==
    Bind(findIconHelper(w, iconName, size, scale, cfg.theme), LAMBDA h :
    IF ~h.err THEN [w |-> h.w, err |-> FALSE, icon |-> h.icon, tier |-> "theme"]
    ELSE IF h.w.crashed
    THEN [w |-> h.w, err |-> TRUE, icon |-> ZeroIcon, tier |-> "none"]
    ELSE Bind(lookupFallbackIcon(h.w, iconName), LAMBDA f :
         IF ~f.err THEN [w |-> f.w, err |-> FALSE, icon |-> f.icon, tier |-> "global"]
         ELSE IF cfg.fallbackTheme = ""
         THEN [w |-> f.w, err |-> TRUE, icon |-> ZeroIcon, tier |-> "none"]
         ELSE Bind(findIconHelper(f.w, iconName, size, scale, cfg.fallbackTheme), LAMBDA t :
              IF ~t.err
              THEN [w |-> t.w, err |-> FALSE, icon |-> t.icon, tier |-> "fallbackTheme"]
              ELSE [w |-> t.w, err |-> TRUE, icon |-> ZeroIcon, tier |-> "none"])))

\* Lookup: FindIcon(iconName, 48, 1)
Lookup(w, cfg, iconName) == FindIcon(w, cfg, iconName, 48, 1)

-----------------------------------------------------------------------------
(* findBestIconHelper and FindBestIcon.                                    *)

RECURSIVE lookupIconOfList_LastFirst(_, _, _, _, _, _)
\* lookupIconOfList trying the candidate names from the last listed to the first
lookupIconOfList_LastFirst(w, iconList, size, scale, themeName, i) ==
    IF i > Len(iconList) THEN [w |-> w, err |-> TRUE, icon |-> ZeroIcon]
    ELSE Bind(lookupIcon(w, iconList[Len(iconList) + 1 - i], size, scale, themeName),
              LAMBDA l :
              IF ~l.err THEN l
              ELSE lookupIconOfList_LastFirst(l.w, iconList, size, scale, themeName, i + 1))

\* findBestIconHelper, the loop over iconList[i..] (lines 338-343): [w, err, icon]
RECURSIVE lookupIconOfList(_, _, _, _, _, _)
lookupIconOfList(w, iconList, size, scale, themeName, i) ==
    IF i > Len(iconList) THEN [w |-> w, err |-> TRUE, icon |-> ZeroIcon]
    ELSE Bind(lookupIcon(w, iconList[i], size, scale, themeName), LAMBDA l :
              IF ~l.err THEN l
              ELSE lookupIconOfList(l.w, iconList, size, scale, themeName, i + 1))

\* findBestIconHelper as a stack of pending themes, like findIconHelperRun: [w, err, icon]
RECURSIVE findBestIconHelperRun(_, _, _, _, _)
findBestIconHelperRun(w, iconList, size, scale, todo) ==
    IF todo = <<>> THEN [w |-> w, err |-> TRUE, icon |-> ZeroIcon]
    ELSE IF todo[1].depth > MaxDepth
    THEN [w |-> [w EXCEPT !.crashed = TRUE], err |-> TRUE, icon |-> ZeroIcon]
    ELSE Bind(getThemeInfo(w, todo[1].theme), LAMBDA g :
         IF g.err
         THEN findBestIconHelperRun(g.w, iconList, size, scale, Tail(todo))
         ELSE Bind(lookupIconOfList(g.w, iconList, size, scale, todo[1].theme, 1), LAMBDA l :
              IF ~l.err THEN l
              ELSE findBestIconHelperRun(l.w, iconList, size, scale,
                       [i \in 1..Len(g.info.Inherits) |->
                           [theme |-> g.info.Inherits[i], depth |-> todo[1].depth + 1]]
                       \o Tail(todo))))

findBestIconHelper(w, iconList, size, scale, themeName) ==
    findBestIconHelperRun(w, iconList, size, scale, <<[theme |-> themeName, depth |-> 1]>>)

\* FindBestIcon, the loop over iconList[i..] of lookupFallbackIcon (lines 311-316)
RECURSIVE lookupFallbackIconOfList(_, _, _)
lookupFallbackIconOfList(w, iconList, i) ==
    IF i > Len(iconList) THEN [w |-> w, err |-> TRUE, icon |-> ZeroIcon]
    ELSE Bind(lookupFallbackIcon(w, iconList[i]), LAMBDA f :
              IF ~f.err THEN f ELSE lookupFallbackIconOfList(f.w, iconList, i + 1))

\* FindBestIcon trying the global fallback before the theme chain
FindBestIcon_GlobalFirst(w, cfg, iconList, size, scale) ==
    Bind(lookupFallbackIconOfList(w, iconList, 1), LAMBDA f :
    IF ~f.err THEN [w |-> f.w, err |-> FALSE, icon |-> f.icon, tier |-> "global"]
    ELSE Bind(findBestIconHelper(f.w, iconList, size, scale, cfg.theme), LAMBDA h :
         IF ~h.err THEN [w |-> h.w, err |-> FALSE, icon |-> h.icon, tier |-> "theme"]
         ELSE [w |-> h.w, err |-> TRUE, icon |-> ZeroIcon, tier |-> "none"]))

\* FindBestIcon returning no error and the zero Icon when nothing is found
FindBestIcon_ZeroIconOnMiss(w, cfg, iconList, size, scale) ==
    Bind(findBestIconHelper(w, iconList, size, scale, cfg.theme), LAMBDA h :
    IF ~h.err THEN [w |-> h.w, err |-> FALSE, icon |-> h.icon, tier |-> "theme"]
    ELSE Bind(lookupFallbackIconOfList(h.w, iconList, 1), LAMBDA f :
         [w |-> f.w, err |-> FALSE, icon |-> f.icon,
          tier |-> IF f.err THEN "none" ELSE "global"]))

\* FindBestIcon: [w, err, icon, tier]
FindBestIcon(w, cfg, iconList, size, scale) ==
    Bind(findBestIconHelper(w, iconList, size, scale, cfg.theme), LAMBDA h :
    IF ~h.err THEN [w |-> h.w, err |-> FALSE, icon |-> h.icon, tier |-> "theme"]
    ELSE IF h.w.crashed
    THEN [w |-> h.w, err |-> TRUE, icon |-> ZeroIcon, tier |-> "none"]
    ELSE Bind(lookupFallbackIconOfList(h.w, iconList, 1), LAMBDA f :
         IF ~f.err THEN [w |-> f.w, err |-> FALSE, icon |-> f.icon, tier |-> "global"]
         ELSE IF cfg.fallbackTheme = ""
         THEN [w |-> f.w, err |-> TRUE, icon |-> ZeroIcon, tier |-> "none"]
         ELSE Bind(findBestIconHelper(f.w, iconList, size, scale, cfg.fallbackTheme),
                   LAMBDA t :
              IF ~t.err
              THEN [w |-> t.w, err |-> FALSE, icon |-> t.icon, tier |-> "fallbackTheme"]
              ELSE [w |-> t.w, err |-> TRUE, icon |-> ZeroIcon, tier |-> "none"])))

-----------------------------------------------------------------------------
(* Installations: the descriptors on disk, the configuration of the        *)
(* IconLookup, the icon files a package may install, the requests made.    *)

Base1 == GetBaseDirs[1]
Pixmaps == GetBaseDirs[Len(GetBaseDirs)]

\* a [subdir] section with Size, Scale and Type=Fixed
FixedSection(size, scale) ==
    [Size |-> IntKey(size), Scale |-> IntKey(scale), Type |-> StrKey("Fixed"),
     MaxSize |-> NoKey, MinSize |-> NoKey, Threshold |-> NoKey]

\* a [subdir] section with Size, Scale, Type=Scalable, MinSize and MaxSize
ScalableSection(size, scale, min, max) ==
    [Size |-> IntKey(size), Scale |-> IntKey(scale), Type |-> StrKey("Scalable"),
     MaxSize |-> IntKey(max), MinSize |-> IntKey(min), Threshold |-> NoKey]

\* a [subdir] section that gives only Size
SizeOnlySection(size) ==
    [Size |-> IntKey(size), Scale |-> NoKey, Type |-> NoStrKey,
     MaxSize |-> NoKey, MinSize |-> NoKey, Threshold |-> NoKey]

\* an index.theme that loads and has [Icon Theme] with Name and Directories
Descriptor(name, directories, scaled, inherits, sections) ==
    [loads |-> TRUE, hasMain |-> TRUE, Name |-> StrKey(name),
     Directories |-> ListKey(directories), ScaledDirectories |-> scaled,
     Inherits |-> inherits, sections |-> sections]

\* every themed path of iconName in the given subdirectories, directories and extensions
ThemedFiles(directories, themeName, subdirs, iconName, exts) ==
    {<<b, ThemedIconPath(b, themeName, d, iconName, e)>> :
        b \in directories, d \in subdirs, e \in exts}

Installation(name) ==
    CASE name = "ordering" ->
        \* two subdirectories that both match (48,1), in both base directories
        [theme |-> "hicolor", fallbackTheme |-> "",
         idx |-> (<<Base1, "hicolor">> :>
                    Descriptor("Hicolor", <<"48x48/apps">>, ListKey(<<"scalable/apps">>),
                               NoListKey,
                               ("48x48/apps" :> FixedSection(48, 1)) @@
                               ("scalable/apps" :> ScalableSection(48, 1, 16, 64)))),
         universe |-> ThemedFiles(BaseDirSet, "hicolor", {"48x48/apps", "scalable/apps"},
                                  "a", {"png", "svg"})
                      \cup {<<Pixmaps, FallbackIconPath(Pixmaps, "a", "png")>>},
         requests |-> {<<"a", 48, 1>>, <<"a", 47, 1>>, <<"a", 48, 2>>, <<"b", 48, 1>>}]
      [] name = "inherit" ->
        \* A inherits B; B lists no parents; hicolor is appended to both
        [theme |-> "A", fallbackTheme |-> "",
         idx |-> (<<Base1, "A">> :>
                    Descriptor("A", <<"32x32/apps">>, NoListKey, ListKey(<<"B">>),
                               ("32x32/apps" :> SizeOnlySection(32)))) @@
                 (<<Base1, "B">> :>
                    Descriptor("B", <<"48x48/apps">>, NoListKey, NoListKey,
                               ("48x48/apps" :> FixedSection(48, 1)))) @@
                 (<<Base1, "hicolor">> :>
                    Descriptor("Hicolor", <<"48x48/apps">>, NoListKey, NoListKey,
                               ("48x48/apps" :> FixedSection(48, 1)))),
         universe |-> ThemedFiles({Base1}, "A", {"32x32/apps"}, "a", {"png"})
                      \cup ThemedFiles({Base1}, "B", {"48x48/apps"}, "a", {"png"})
                      \cup ThemedFiles({Base1}, "hicolor", {"48x48/apps"}, "a", {"png"})
                      \cup ThemedFiles({Base1}, "hicolor", {"48x48/apps"}, "b", {"png"})
                      \cup {<<Pixmaps, FallbackIconPath(Pixmaps, "a", "png")>>,
                            <<Pixmaps, FallbackIconPath(Pixmaps, "b", "png")>>},
         requests |-> {<<"a", 48, 1>>, <<"a", 32, 1>>, <<"b", 48, 1>>}]
      [] name = "scaled" ->
        \* a scale-2 subdirectory of the same pixel size listed before the exact one,
        \* and a configured fallback theme
        [theme |-> "hicolor", fallbackTheme |-> "Extra",
         idx |-> (<<Base1, "hicolor">> :>
                    Descriptor("Hicolor", <<"24x24@2/apps", "48x48/apps">>, NoListKey,
                               NoListKey,
                               ("24x24@2/apps" :> FixedSection(24, 2)) @@
                               ("48x48/apps" :> FixedSection(48, 1)))) @@
                 (<<Base1, "Extra">> :>
                    Descriptor("Extra", <<"48x48/apps">>, NoListKey, NoListKey,
                               ("48x48/apps" :> FixedSection(48, 1)))),
         universe |-> ThemedFiles({Base1}, "hicolor", {"24x24@2/apps", "48x48/apps"},
                                  "a", {"png"})
                      \cup ThemedFiles({Pixmaps}, "hicolor", {"24x24@2/apps"}, "a", {"png"})
                      \cup ThemedFiles({Base1}, "hicolor", {"48x48/apps"}, "a", {"svg"})
                      \cup ThemedFiles({Base1}, "Extra", {"48x48/apps"}, "b", {"png"})
                      \cup {<<Pixmaps, FallbackIconPath(Pixmaps, "b", "svg")>>},
         requests |-> {<<"a", 48, 1>>, <<"a", 24, 2>>, <<"a", 12, 4>>, <<"b", 48, 1>>}]
      [] name = "solefixed" ->
        \* hicolor/48x48/apps is the theme's only subdirectory: Fixed, size 48, scale 1
        [theme |-> "hicolor", fallbackTheme |-> "",
         idx |-> (<<Base1, "hicolor">> :>
                    Descriptor("Hicolor", <<"48x48/apps">>, NoListKey, NoListKey,
                               ("48x48/apps" :> FixedSection(48, 1)))),
         universe |-> ThemedFiles(BaseDirSet, "hicolor", {"48x48/apps"}, "sample",
                                  {"png", "svg"})
                      \cup {<<Pixmaps, FallbackIconPath(Pixmaps, "sample", "png")>>},
         requests |-> {<<"sample", 48, 1>>, <<"sample", 47, 1>>, <<"other", 47, 1>>}]
      [] name = "threshold" ->
        \* the only subdirectory gives Size=32 alone: Threshold, threshold 2
        [theme |-> "hicolor", fallbackTheme |-> "",
         idx |-> (<<Base1, "hicolor">> :>
                    Descriptor("Hicolor", <<"32x32/apps">>, NoListKey, NoListKey,
                               ("32x32/apps" :> SizeOnlySection(32)))),
         universe |-> ThemedFiles({Base1}, "hicolor", {"32x32/apps"}, "a", {"png", "svg"})
                      \cup {<<Base1, FallbackIconPath(Base1, "a", "svg")>>},
         requests |-> {<<"a", 29, 1>>, <<"a", 30, 1>>, <<"a", 34, 1>>, <<"a", 35, 1>>}]
      [] name = "huge" ->
        \* a subdirectory whose Size is the largest int
        [theme |-> "hicolor", fallbackTheme |-> "",
         idx |-> (<<Base1, "hicolor">> :>
                    Descriptor("Hicolor", <<"huge/apps", "48x48/apps">>, NoListKey, NoListKey,
                               ("huge/apps" :> FixedSection(MaxInt, 1)) @@
                               ("48x48/apps" :> FixedSection(48, 1)))),
         universe |-> ThemedFiles({Base1}, "hicolor", {"huge/apps", "48x48/apps"}, "a",
                                  {"png"})
                      \cup ThemedFiles({Pixmaps}, "hicolor", {"huge/apps"}, "a", {"svg"}),
         requests |-> {<<"a", 0, 1>>, <<"a", 48, 1>>}]
      [] name = "best" ->
        \* for FindBestIcon and Lookup: T holds sizes 32 and 48 (and 48 at scale 2), its
        \* parent hicolor 48; Extra is the configured fallback theme
        [theme |-> "T", fallbackTheme |-> "Extra",
         idx |-> (<<Base1, "T">> :>
                    Descriptor("T", <<"32x32/apps", "48x48/apps", "48x48@2/apps">>,
                               NoListKey, NoListKey,
                               ("32x32/apps" :> FixedSection(32, 1)) @@
                               ("48x48/apps" :> FixedSection(48, 1)) @@
                               ("48x48@2/apps" :> FixedSection(48, 2)))) @@
                 (<<Base1, "hicolor">> :>
                    Descriptor("Hicolor", <<"48x48/apps">>, NoListKey, NoListKey,
                               ("48x48/apps" :> FixedSection(48, 1)))) @@
                 (<<Base1, "Extra">> :>
                    Descriptor("Extra", <<"48x48/apps">>, NoListKey, NoListKey,
                               ("48x48/apps" :> FixedSection(48, 1)))),
         universe |-> ThemedFiles({Base1}, "T", {"32x32/apps", "48x48@2/apps"}, "a", {"png"})
                      \cup ThemedFiles({Base1}, "T", {"48x48/apps"}, "b", {"png"})
                      \cup ThemedFiles({Base1}, "hicolor", {"48x48/apps"}, "a", {"png"})
                      \cup ThemedFiles({Base1}, "Extra", {"48x48/apps"}, "b", {"png"})
                      \cup {<<Pixmaps, FallbackIconPath(Pixmaps, "a", "png")>>,
                            <<Pixmaps, FallbackIconPath(Pixmaps, "b", "png")>>},
         requests |-> {<<"a", 48, 1>>, <<"a", 32, 1>>, <<"a", 48, 2>>, <<"b", 48, 1>>},
         lists |-> {<<"a", "b">>, <<"b", "a">>, <<"b">>, <<>>}]
      [] name = "cache" ->
        \* for the snapshots: one theme, one subdirectory, files that come and go
        [theme |-> "hicolor", fallbackTheme |-> "",
         idx |-> (<<Base1, "hicolor">> :>
                    Descriptor("Hicolor", <<"48x48/apps">>, NoListKey, NoListKey,
                               ("48x48/apps" :> FixedSection(48, 1)))),
         universe |-> ThemedFiles({Base1}, "hicolor", {"48x48/apps"}, "a", {"png", "svg"})
                      \cup {<<Pixmaps, FallbackIconPath(Pixmaps, "a", "png")>>},
         requests |-> {<<"a", 48, 1>>}]
      [] name = "conc" ->
        \* for the concurrent calls: one theme, one icon file
        [theme |-> "hicolor", fallbackTheme |-> "",
         idx |-> (<<Base1, "hicolor">> :>
                    Descriptor("Hicolor", <<"48x48/apps">>, NoListKey, NoListKey,
                               ("48x48/apps" :> FixedSection(48, 1)))),
         universe |-> ThemedFiles({Base1}, "hicolor", {"48x48/apps"}, "a", {"png"}),
         requests |-> {<<"a", 48, 1>>}]
      [] name = "cycle" ->
        \* A inherits B and B inherits A
        [theme |-> "A", fallbackTheme |-> "",
         idx |-> (<<Base1, "A">> :>
                    Descriptor("A", <<"48x48/apps">>, NoListKey, ListKey(<<"B">>),
                               ("48x48/apps" :> FixedSection(48, 1)))) @@
                 (<<Base1, "B">> :>
                    Descriptor("B", <<"48x48/apps">>, NoListKey, ListKey(<<"A">>),
                               ("48x48/apps" :> FixedSection(48, 1)))) @@
                 (<<Base1, "hicolor">> :>
                    Descriptor("Hicolor", <<"48x48/apps">>, NoListKey, NoListKey,
                               ("48x48/apps" :> FixedSection(48, 1)))),
         universe |-> ThemedFiles({Base1}, "A", {"48x48/apps"}, "a", {"png"})
                      \cup ThemedFiles({Base1}, "B", {"48x48/apps"}, "a", {"png"})
                      \cup ThemedFiles({Base1}, "hicolor", {"48x48/apps"}, "a", {"png"})
                      \cup {<<Pixmaps, FallbackIconPath(Pixmaps, "a", "png")>>},
         requests |-> {<<"a", 48, 1>>}]
      [] name = "load" ->
        \* the descriptors of A and B are drawn by InitLoad; C always loads; A, a theme
        \* without icon files, inherits B and C; no hicolor is installed; B and C may
        \* each hold the icon
        [theme |-> "A", fallbackTheme |-> "",
         idx |-> (<<Base1, "C">> :>
                    Descriptor("C", <<"d1">>, NoListKey, NoListKey,
                               ("d1" :> FixedSection(48, 1)))),
         universe |-> ThemedFiles({Base1}, "B", {"d1"}, "a", {"png"})
                      \cup ThemedFiles({Base1}, "C", {"d1"}, "a", {"png"})
                      \cup {<<Pixmaps, FallbackIconPath(Pixmaps, "a", "png")>>},
         requests |-> {<<"a", 48, 1>>},
         lists |-> {<<"b", "a">>}]
      [] name = "walk" ->
        \* one base directory whose entries SpecWalk draws; no theme is read
        [theme |-> "hicolor", fallbackTheme |-> "",
         idx |-> <<>>, universe |-> {}, requests |-> {}]
      [] name = "missing" ->
        \* the primary theme has no descriptor; hicolor is the configured fallback theme
        [theme |-> "Missing", fallbackTheme |-> "hicolor",
         idx |-> (<<Base1, "hicolor">> :>
                    Descriptor("Hicolor", <<"48x48/apps">>, NoListKey, NoListKey,
                               ("48x48/apps" :> FixedSection(48, 1)))),
         universe |-> ThemedFiles({Base1}, "hicolor", {"48x48/apps"}, "a", {"png"})
                      \cup ThemedFiles({Base1}, "Missing", {"48x48/apps"}, "a", {"png"})
                      \cup {<<Pixmaps, FallbackIconPath(Pixmaps, "a", "png")>>,
                            <<Base1, FallbackIconPath(Base1, "a", "svg")>>},
         requests |-> {<<"a", 48, 1>>, <<"b", 48, 1>>}]

Installations ==
    {"ordering", "inherit", "scaled", "solefixed", "threshold", "huge", "missing", "cycle"}

\* the installations of SpecApi
ApiInstallations == {"best"}

\* the installations of SpecCache
CacheInstallations == {"cache"}

\* the installations of SpecConc
ConcInstallations == {"conc"}

\* the installations of SpecLoad
LoadInstallations == {"load"}

\* the installations of SpecWalk
WalkInstallations == {"walk"}

-----------------------------------------------------------------------------
(* The engine: construction, the public API, the clock and the filesystem. *)

\* the index.theme files on disk: those of the installation, or those InitLoad drew
DescriptorsOnDisk ==
    IF scn \in LoadInstallations THEN ld.idx ELSE Installation(scn).idx

\* the state a call of the public API starts from
World ==
    [tic |-> themeInfoCache, dc |-> dirCache,
     files |-> fsFiles, mtime |-> fsMtime, present |-> fsPresent,
     idx |-> DescriptorsOnDisk, now |-> now,
     walks |-> 0, dropped |-> FALSE, crashed |-> FALSE]

Config == [theme |-> theme, fallbackTheme |-> fallbackTheme]

\* NewIconLookupWithConfig, lines 77-87: a default size or scale left 0 becomes d
OrDefault(v, d) == IF v = 0 THEN d ELSE v

NoCall ==
    [op |-> "none", name |-> "", size |-> 0, scale |-> 0, err |-> FALSE, icon |-> ZeroIcon,
     tier |-> "none", walks |-> 0, dropped |-> FALSE, crashed |-> FALSE,
     coherent |-> TRUE, list |-> <<>>, dir |-> "", at |-> 0, ops |-> 0]

\* prev before any call: the most recent call (cur) and the one before it (old)
NoCalls == [old |-> NoCall, cur |-> NoCall]

\* inputs of SpecSizing before any is drawn
NoSizing ==
    [rule |-> ZeroSubDirIconInfo, size |-> 0, scale |-> 0, applied |-> {},
     matches |-> FALSE, distance |-> 0, found |-> FALSE, icon |-> ZeroIcon]

\* SpecConc's state in the other specifications
NoConc == <<>>

\* SpecLoad's state in the other specifications
NoLoad == <<>>

\* SpecWalk's state in the other specifications
NoWalk == <<>>

\* the descriptor of SpecTheme before it is read
NoTheme ==
    [theme |-> "", Inherits |-> NoListKey, read |-> FALSE, err |-> FALSE,
     info |-> ZeroThemeInfo]

\* the environment of SpecBaseDirs before GetBaseDirs is called
NoEnv == [home |-> <<>>, dataDirs |-> <<>>, called |-> FALSE, baseDirs |-> <<>>]

FilesOf(F) == [b \in BaseDirSet |-> {f[2] : f \in {g \in F : g[1] = b}}]

AllFiles == UNION {{<<b, f>> : f \in fsFiles[b]} : b \in BaseDirSet}

\* NewIconLookupWithConfig on an installation with at most MaxFiles icon files
Init ==
    /\ scn \in Installations
    /\ theme = Installation(scn).theme
    /\ fallbackTheme = Installation(scn).fallbackTheme
    /\ defaultSize = OrDefault(0, 48)
    /\ defaultScale = OrDefault(0, 1)
    /\ prev = NoCalls
    /\ \E F \in SUBSET Installation(scn).universe :
          /\ Cardinality(F) <= MaxFiles
          /\ fsFiles = FilesOf(F)
    /\ fsMtime = [b \in BaseDirSet |-> 0]
    /\ fsPresent = [b \in BaseDirSet |-> TRUE]
    /\ fsOps = 0
    /\ now = 0
    /\ LET w == createInitialCache(
                   [tic |-> <<>>, dc |-> <<>>,
                    files |-> fsFiles, mtime |-> fsMtime, present |-> fsPresent,
                    idx |-> Installation(scn).idx, now |-> now,
                    walks |-> 0, dropped |-> FALSE, crashed |-> FALSE], 1)
       IN  /\ themeInfoCache = w.tic
           /\ dirCache = w.dc
    /\ last = NoCall
    /\ sz = NoSizing
    /\ env = NoEnv
    /\ th = NoTheme
    /\ conc = NoConc
    /\ ld = NoLoad
    /\ wk = NoWalk

\* getThemeInfo(themeName) with nothing cached: what the descriptors on disk give
ThemeOnDisk(themeName) == getThemeInfoFrom(World, themeName, 1)

\* every cached Theme Record is the one the descriptors on disk give now
CacheCoherent ==
    \A t \in DOMAIN themeInfoCache :
        \E d \in {ThemeOnDisk(t)} : ~d.err /\ d.info = themeInfoCache[t]

\* what a call leaves behind: the caches and the record of the call (its arguments and
\* results, and what was observed while it ran)
Returned(op, iconName, size, scale, r) ==
    /\ themeInfoCache' = r.w.tic
    /\ dirCache' = r.w.dc
    /\ last' = [op |-> op, name |-> iconName, size |-> size, scale |-> scale,
                err |-> r.err, icon |-> r.icon, tier |-> r.tier,
                walks |-> r.w.walks, dropped |-> r.w.dropped, crashed |-> r.w.crashed,
                coherent |-> CacheCoherent, list |-> <<iconName>>, dir |-> "",
                at |-> now, ops |-> fsOps]

\* il.FindIcon(iconName, size, scale)
DoFindIcon(iconName, size, scale) ==
    /\ scn \in Installations \cup ApiInstallations \cup LoadInstallations
    /\ ~last.crashed
    /\ \E r \in {FindIcon(World, Config, iconName, size, scale)} :
          Returned("FindIcon", iconName, size, scale, r)
    /\ UNCHANGED <<scn, theme, fallbackTheme, defaultSize, defaultScale, prev,
                   fsFiles, fsMtime, fsPresent, fsOps, now, sz, env, th, conc,
                   ld, wk>>

\* time passes: just short of the validity interval, or the whole interval
Tick(d) ==
    /\ scn \in Installations \cup CacheInstallations \cup ConcInstallations
               \cup WalkInstallations
    /\ now + d <= MaxTime
    /\ now' = now + d
    /\ last' = NoCall
    /\ UNCHANGED <<scn, theme, fallbackTheme, defaultSize, defaultScale, prev,
                   themeInfoCache, dirCache,
                   fsFiles, fsMtime, fsPresent, fsOps, sz, env, th, conc,
                   ld, wk>>

\* an icon file appears; touch: the base directory's own modification time changes
\* (it always does for a file placed in the base directory itself)
AddFile(f, touch) ==
    /\ scn \in Installations \cup CacheInstallations \cup ConcInstallations
    /\ fsOps < MaxFsOps
    /\ Cardinality(AllFiles) < MaxFiles
    /\ f \in Installation(scn).universe \ AllFiles
    /\ fsPresent[f[1]]
    /\ touch \/ \A e \in Range(extensions) : \A n \in {"a", "b", "sample"} :
                    f[2] # FallbackIconPath(f[1], n, e)
    /\ fsFiles' = [fsFiles EXCEPT ![f[1]] = @ \cup {f[2]}]
    /\ fsMtime' = IF touch THEN [fsMtime EXCEPT ![f[1]] = @ + 1] ELSE fsMtime
    /\ fsOps' = fsOps + 1
    /\ last' = NoCall
    /\ UNCHANGED <<scn, theme, fallbackTheme, defaultSize, defaultScale, prev,
                   themeInfoCache, dirCache, fsPresent, now, sz, env, th, conc,
                   ld, wk>>

\* an icon file disappears
RemoveFile(f, touch) ==
    /\ scn \in Installations \cup CacheInstallations \cup ConcInstallations
    /\ fsOps < MaxFsOps
    /\ f \in AllFiles
    /\ touch \/ \A e \in Range(extensions) : \A n \in {"a", "b", "sample"} :
                    f[2] # FallbackIconPath(f[1], n, e)
    /\ fsFiles' = [fsFiles EXCEPT ![f[1]] = @ \ {f[2]}]
    /\ fsMtime' = IF touch THEN [fsMtime EXCEPT ![f[1]] = @ + 1] ELSE fsMtime
    /\ fsOps' = fsOps + 1
    /\ last' = NoCall
    /\ UNCHANGED <<scn, theme, fallbackTheme, defaultSize, defaultScale, prev,
                   themeInfoCache, dirCache, fsPresent, now, sz, env, th, conc,
                   ld, wk>>

\* a base directory disappears with everything beneath it
RemoveBaseDir(b) ==
    /\ scn \in Installations \cup CacheInstallations \cup ConcInstallations
    /\ fsOps < MaxFsOps
    /\ fsPresent[b]
    /\ fsPresent' = [fsPresent EXCEPT ![b] = FALSE]
    /\ fsFiles' = [fsFiles EXCEPT ![b] = {}]
    /\ fsOps' = fsOps + 1
    /\ last' = NoCall
    /\ UNCHANGED <<scn, theme, fallbackTheme, defaultSize, defaultScale, prev,
                   themeInfoCache, dirCache, fsMtime, now, sz, env, th, conc,
                   ld, wk>>

Next ==
    \/ \E q \in Installation(scn).requests : DoFindIcon(q[1], q[2], q[3])
    \/ \E d \in {cacheValidCheckInterval - 1, cacheValidCheckInterval} : Tick(d)
    \/ \E f \in Installation(scn).universe : \E touch \in BOOLEAN : AddFile(f, touch)
    \/ \E f \in Installation(scn).universe : \E touch \in BOOLEAN : RemoveFile(f, touch)
    \/ \E b \in BaseDirSet : RemoveBaseDir(b)

Spec == Init /\ [][Next]_vars

-----------------------------------------------------------------------------
(* The three entry points on one installation: FindIcon, FindBestIcon and  *)
(* Lookup, for every DefaultSize and DefaultScale of LookupConfigInputs.   *)

\* LookupConfig.DefaultSize and LookupConfig.DefaultScale; 0 is unset
DefaultSizeInputs == {0, 32}
DefaultScaleInputs == {0, 2}

\* the sizes and scales FindBestIcon is asked for
BestSizeInputs == {<<48, 1>>, <<32, 1>>}

\* NewIconLookupWithConfig on an installation of ApiInstallations
InitApi ==
    /\ scn \in ApiInstallations
    /\ theme = Installation(scn).theme
    \* LookupConfig.FallbackTheme: unset, or the installation's
    /\ fallbackTheme \in {"", Installation(scn).fallbackTheme}
    /\ \E v \in DefaultSizeInputs : defaultSize = OrDefault(v, 48)
    /\ \E v \in DefaultScaleInputs : defaultScale = OrDefault(v, 1)
    /\ prev = NoCalls
    /\ \E F \in SUBSET Installation(scn).universe :
          /\ Cardinality(F) <= MaxFiles
          /\ fsFiles = FilesOf(F)
    /\ fsMtime = [b \in BaseDirSet |-> 0]
    /\ fsPresent = [b \in BaseDirSet |-> TRUE]
    /\ fsOps = 0
    /\ now = 0
    /\ \E w \in {createInitialCache(
                    [tic |-> <<>>, dc |-> <<>>,
                     files |-> fsFiles, mtime |-> fsMtime, present |-> fsPresent,
                     idx |-> Installation(scn).idx, now |-> now,
                     walks |-> 0, dropped |-> FALSE, crashed |-> FALSE], 1)} :
          /\ themeInfoCache = w.tic
          /\ dirCache = w.dc
    /\ last = NoCall
    /\ sz = NoSizing
    /\ env = NoEnv
    /\ th = NoTheme
    /\ conc = NoConc
    /\ ld = NoLoad
    /\ wk = NoWalk

\* il.FindBestIcon(iconList, size, scale)
DoFindBestIcon(iconList, size, scale) ==
    /\ scn \in ApiInstallations \cup LoadInstallations
    /\ ~last.crashed
    /\ \E r \in {FindBestIcon(World, Config, iconList, size, scale)} :
          /\ themeInfoCache' = r.w.tic
          /\ dirCache' = r.w.dc
          /\ last' = [op |-> "FindBestIcon", name |-> r.icon.Name, size |-> size,
                      scale |-> scale, err |-> r.err, icon |-> r.icon, tier |-> r.tier,
                      walks |-> r.w.walks, dropped |-> r.w.dropped,
                      crashed |-> r.w.crashed, coherent |-> CacheCoherent,
                      list |-> iconList, dir |-> "", at |-> now, ops |-> fsOps]
    /\ UNCHANGED <<scn, theme, fallbackTheme, defaultSize, defaultScale, prev,
                   fsFiles, fsMtime, fsPresent, fsOps, now, sz, env, th, conc,
                   ld, wk>>

\* il.Lookup(iconName)
DoLookup(iconName) ==
    /\ scn \in ApiInstallations
    /\ ~last.crashed
    /\ \E r \in {Lookup(World, Config, iconName)} :
          Returned("Lookup", iconName, 48, 1, r)
    /\ UNCHANGED <<scn, theme, fallbackTheme, defaultSize, defaultScale, prev,
                   fsFiles, fsMtime, fsPresent, fsOps, now, sz, env, th, conc,
                   ld, wk>>

NextApi ==
    \/ \E q \in Installation(scn).requests : DoFindIcon(q[1], q[2], q[3])
    \/ \E l \in Installation(scn).lists : \E q \in BestSizeInputs :
          DoFindBestIcon(l, q[1], q[2])
    \/ \E q \in Installation(scn).requests : DoLookup(q[1])

SpecApi == InitApi /\ [][NextApi]_vars

-----------------------------------------------------------------------------
(* The snapshots over time: calls of FindIcon and existence queries, with  *)
(* the clock advancing by single seconds and the filesystem changing in    *)
(* between; prev keeps the two most recent calls.                          *)

\* NewIconLookupWithConfig on an installation of CacheInstallations
InitCache ==
    /\ scn \in CacheInstallations
    /\ theme = Installation(scn).theme
    /\ fallbackTheme = Installation(scn).fallbackTheme
    /\ defaultSize = OrDefault(0, 48)
    /\ defaultScale = OrDefault(0, 1)
    /\ prev = NoCalls
    /\ \E F \in SUBSET Installation(scn).universe :
          /\ Cardinality(F) <= MaxFiles
          /\ fsFiles = FilesOf(F)
    /\ fsMtime = [b \in BaseDirSet |-> 0]
    /\ fsPresent = [b \in BaseDirSet |-> TRUE]
    /\ fsOps = 0
    /\ now = 0
    /\ \E w \in {createInitialCache(
                    [tic |-> <<>>, dc |-> <<>>,
                     files |-> fsFiles, mtime |-> fsMtime, present |-> fsPresent,
                     idx |-> Installation(scn).idx, now |-> now,
                     walks |-> 0, dropped |-> FALSE, crashed |-> FALSE], 1)} :
          /\ themeInfoCache = w.tic
          /\ dirCache = w.dc
    /\ last = NoCall
    /\ sz = NoSizing
    /\ env = NoEnv
    /\ th = NoTheme
    /\ conc = NoConc
    /\ ld = NoLoad
    /\ wk = NoWalk

\* il.FindIcon(iconName, size, scale), remembered in prev
DoFindIconTimed(iconName, size, scale) ==
    /\ scn \in CacheInstallations
    /\ ~last.crashed
    /\ \E r \in {FindIcon(World, Config, iconName, size, scale)} :
          Returned("FindIcon", iconName, size, scale, r)
    /\ prev' = [old |-> prev.cur, cur |-> last']
    /\ UNCHANGED <<scn, theme, fallbackTheme, defaultSize, defaultScale,
                   fsFiles, fsMtime, fsPresent, fsOps, now, sz, env, th, conc,
                   ld, wk>>

\* il.fileExists(baseDir, iconPath), remembered in prev
DoFileExists(baseDir, iconPath) ==
    /\ scn \in CacheInstallations
    /\ ~last.crashed
    /\ \E r \in {fileExists(World, baseDir, iconPath)} :
          /\ themeInfoCache' = r.w.tic
          /\ dirCache' = r.w.dc
          /\ last' = [NoCall EXCEPT !.op = "fileExists", !.name = iconPath,
                                    !.dir = baseDir, !.err = ~r.ok,
                                    !.walks = r.w.walks, !.dropped = r.w.dropped,
                                    !.coherent = CacheCoherent,
                                    !.at = now, !.ops = fsOps]
    /\ prev' = [old |-> prev.cur, cur |-> last']
    /\ UNCHANGED <<scn, theme, fallbackTheme, defaultSize, defaultScale,
                   fsFiles, fsMtime, fsPresent, fsOps, now, sz, env, th, conc,
                   ld, wk>>

NextCache ==
    \/ \E q \in Installation(scn).requests : DoFindIconTimed(q[1], q[2], q[3])
    \/ \E f \in Installation(scn).universe : DoFileExists(f[1], f[2])
    \/ \E d \in {1, cacheValidCheckInterval - 1} : Tick(d)
    \/ \E f \in Installation(scn).universe : \E touch \in BOOLEAN : AddFile(f, touch)
    \/ \E f \in Installation(scn).universe : \E touch \in BOOLEAN : RemoveFile(f, touch)
    \/ \E b \in BaseDirSet : RemoveBaseDir(b)

SpecCache == InitCache /\ [][NextCache]_vars

-----------------------------------------------------------------------------
(* The sizing functions on their own: a rule and a request are drawn, then *)
(* directoryMatchesSize, directorySizeDistance and lookupIcon are applied  *)
(* to a theme whose only subdirectory has that rule and holds the icon.    *)

RuleInputs ==
    [Type : {"Fixed", "Scalable", "Threshold"}, Size : {32, 48, MaxInt}, Scale : 1..MaxScale,
     MinSize : {16, 32, 48}, MaxSize : {32, 48, 64}, Threshold : {0, 2}]

SizeInputs == {16, 29, 30, 31, 32, 33, 34, 35, 47, 48, 64, 65}

SizingTheme(rule) ==
    [Name |-> "Hicolor", Directories |-> <<"dir">>, ScaledDirectories |-> <<>>,
     Inherits |-> <<>>, directoryMap |-> ("dir" :> rule)]

SizingIconPath == ThemedIconPath(Base1, "hicolor", "dir", "a", "png")

\* an IconLookup that has the theme cached and a fresh snapshot holding the icon
SizingWorld(rule) ==
    [tic |-> ("hicolor" :> SizingTheme(rule)),
     dc |-> [b \in BaseDirSet |->
                [files |-> IF b = Base1 THEN {SizingIconPath} ELSE {},
                 mtime |-> 0, lastStat |-> 0]],
     files |-> [b \in BaseDirSet |-> IF b = Base1 THEN {SizingIconPath} ELSE {}],
     mtime |-> [b \in BaseDirSet |-> 0], present |-> [b \in BaseDirSet |-> TRUE],
     idx |-> <<>>, now |-> 0, walks |-> 0, dropped |-> FALSE, crashed |-> FALSE]

InitSizing ==
    /\ scn = "sizing"
    /\ theme = "hicolor"
    /\ fallbackTheme = ""
    /\ defaultSize = 48
    /\ defaultScale = 1
    /\ prev = NoCalls
    /\ themeInfoCache = <<>>
    /\ dirCache = <<>>
    /\ fsFiles = [b \in BaseDirSet |-> {}]
    /\ fsMtime = [b \in BaseDirSet |-> 0]
    /\ fsPresent = [b \in BaseDirSet |-> TRUE]
    /\ fsOps = 0
    /\ now = 0
    /\ last = NoCall
    /\ env = NoEnv
    /\ th = NoTheme
    /\ conc = NoConc
    /\ ld = NoLoad
    /\ wk = NoWalk
    /\ \E rule \in RuleInputs : \E size \in SizeInputs : \E scale \in 1..MaxScale :
          sz = [NoSizing EXCEPT !.rule = rule, !.size = size, !.scale = scale]

ApplyDirectoryMatchesSize ==
    /\ scn = "sizing"
    /\ "matches" \notin sz.applied
    /\ sz' = [sz EXCEPT !.applied = @ \cup {"matches"},
                        !.matches = directoryMatchesSize(SizingTheme(sz.rule), "dir",
                                                         sz.size, sz.scale)]
    /\ UNCHANGED engineVars

ApplyDirectorySizeDistance ==
    /\ scn = "sizing"
    /\ "distance" \notin sz.applied
    /\ sz' = [sz EXCEPT !.applied = @ \cup {"distance"},
                        !.distance = directorySizeDistance(SizingTheme(sz.rule), "dir",
                                                           sz.size, sz.scale)]
    /\ UNCHANGED engineVars

ApplyLookupIcon ==
    /\ scn = "sizing"
    /\ "lookup" \notin sz.applied
    /\ \E r \in {lookupIcon(SizingWorld(sz.rule), "a", sz.size, sz.scale, "hicolor")} :
          sz' = [sz EXCEPT !.applied = @ \cup {"lookup"},
                           !.found = ~r.err, !.icon = r.icon]
    /\ UNCHANGED engineVars

NextSizing ==
    \/ ApplyDirectoryMatchesSize
    \/ ApplyDirectorySizeDistance
    \/ ApplyLookupIcon

SpecSizing == InitSizing /\ [][NextSizing]_vars

\* the sizing functions at the edge of the int width: rules and requests whose
\* scaled sizes do not fit an int are drawn as well
WideSize == 2 ^ (IntBits - 2)

WideRuleInputs ==
    RuleInputs \cup
    [Type : {"Fixed", "Scalable", "Threshold"}, Size : {WideSize}, Scale : 1..MaxScale,
     MinSize : {16}, MaxSize : {MaxInt}, Threshold : {0, 2}]

WideSizeInputs == SizeInputs \cup {WideSize, MaxInt}

InitSizingWide ==
    /\ scn = "sizing"
    /\ theme = "hicolor"
    /\ fallbackTheme = ""
    /\ defaultSize = 48
    /\ defaultScale = 1
    /\ prev = NoCalls
    /\ themeInfoCache = <<>>
    /\ dirCache = <<>>
    /\ fsFiles = [b \in BaseDirSet |-> {}]
    /\ fsMtime = [b \in BaseDirSet |-> 0]
    /\ fsPresent = [b \in BaseDirSet |-> TRUE]
    /\ fsOps = 0
    /\ now = 0
    /\ last = NoCall
    /\ env = NoEnv
    /\ th = NoTheme
    /\ conc = NoConc
    /\ ld = NoLoad
    /\ wk = NoWalk
    /\ \E rule \in WideRuleInputs : \E size \in WideSizeInputs : \E scale \in 1..MaxScale :
          sz = [NoSizing EXCEPT !.rule = rule, !.size = size, !.scale = scale]

SpecSizingWide == InitSizingWide /\ [][NextSizing]_vars

-----------------------------------------------------------------------------
(* GetBaseDirs under every environment of bounded length.                  *)

\* the tokens XDG_DATA_DIRS is made of
EnvTokens == {":", "/", "a", "b"}

\* the values of XDG_DATA_DIRS: unset or empty (<<>>), entries absolute and
\* relative, with and without trailing slash, empty entries between colons
DataDirsInputs == UNION {[1..k -> EnvTokens] : k \in 0..MaxEnvLen}

\* the values of HOME: unset or empty, a directory, the same with a trailing slash
HomeInputs == {<<>>, <<"/", "h">>, <<"/", "h", "/">>}

InitBaseDirs ==
    /\ scn = "basedirs"
    /\ theme = "hicolor"
    /\ fallbackTheme = ""
    /\ defaultSize = 48
    /\ defaultScale = 1
    /\ prev = NoCalls
    /\ themeInfoCache = <<>>
    /\ dirCache = <<>>
    /\ fsFiles = [b \in BaseDirSet |-> {}]
    /\ fsMtime = [b \in BaseDirSet |-> 0]
    /\ fsPresent = [b \in BaseDirSet |-> TRUE]
    /\ fsOps = 0
    /\ now = 0
    /\ last = NoCall
    /\ sz = NoSizing
    /\ th = NoTheme
    /\ conc = NoConc
    /\ ld = NoLoad
    /\ wk = NoWalk
    /\ \E homeDir \in HomeInputs : \E xdgDataDirs \in DataDirsInputs :
          env = [NoEnv EXCEPT !.home = homeDir, !.dataDirs = xdgDataDirs]

\* GetBaseDirs() under the environment drawn
DoGetBaseDirs ==
    /\ scn = "basedirs"
    /\ ~env.called
    /\ env' = [env EXCEPT !.called = TRUE,
                          !.baseDirs = GetBaseDirsIn(env.home, env.dataDirs)]
    /\ UNCHANGED <<scn, theme, fallbackTheme, defaultSize, defaultScale, prev,
                   themeInfoCache, dirCache, fsFiles, fsMtime, fsPresent, fsOps,
                   now, last, sz, th, conc,
                   ld, wk>>

NextBaseDirs == DoGetBaseDirs

SpecBaseDirs == InitBaseDirs /\ [][NextBaseDirs]_vars

-----------------------------------------------------------------------------
(* readThemeIndex on descriptors with every Inherits key of bounded length. *)

\* the theme names an Inherits key may list
ParentNames == {"B", "hicolor", "Hicolor"}

\* the Inherits key: absent, or a list of up to MaxInherits names
InheritsInputs ==
    {NoListKey} \cup {ListKey(l) : l \in UNION {[1..k -> ParentNames] : k \in 0..MaxInherits}}

\* the theme whose descriptor is read
ThemeInputs == {"A", "hicolor"}

\* the index.theme of SpecTheme: valid, one subdirectory, the Inherits key drawn
DescriptorWith(inheritsKey) ==
    Descriptor("Theme", <<"48x48/apps">>, NoListKey, inheritsKey,
               ("48x48/apps" :> FixedSection(48, 1)))

InitTheme ==
    /\ scn = "theme"
    /\ theme = "hicolor"
    /\ fallbackTheme = ""
    /\ defaultSize = 48
    /\ defaultScale = 1
    /\ prev = NoCalls
    /\ themeInfoCache = <<>>
    /\ dirCache = <<>>
    /\ fsFiles = [b \in BaseDirSet |-> {}]
    /\ fsMtime = [b \in BaseDirSet |-> 0]
    /\ fsPresent = [b \in BaseDirSet |-> TRUE]
    /\ fsOps = 0
    /\ now = 0
    /\ last = NoCall
    /\ sz = NoSizing
    /\ env = NoEnv
    /\ conc = NoConc
    /\ ld = NoLoad
    /\ wk = NoWalk
    /\ \E themeName \in ThemeInputs : \E inheritsKey \in InheritsInputs :
          th = [NoTheme EXCEPT !.theme = themeName, !.Inherits = inheritsKey]

\* il.readThemeIndex(theme, indexPath) on the descriptor drawn
DoReadThemeIndex ==
    /\ scn = "theme"
    /\ ~th.read
    /\ \E r \in {readThemeIndex(th.theme, DescriptorWith(th.Inherits))} :
          th' = [th EXCEPT !.read = TRUE, !.err = r.err, !.info = r.info]
    /\ UNCHANGED <<scn, theme, fallbackTheme, defaultSize, defaultScale, prev,
                   themeInfoCache, dirCache, fsFiles, fsMtime, fsPresent, fsOps,
                   now, last, sz, env, conc,
                   ld, wk>>

NextTheme == DoReadThemeIndex

SpecTheme == InitTheme /\ [][NextTheme]_vars

-----------------------------------------------------------------------------
(* Concurrent calls on one IconLookup: goroutines running fileExists and   *)
(* getThemeInfo, the two functions through which FindIcon and FindBestIcon *)
(* reach il.mu, il.dirCache and il.themeInfoCache.  A step is a lock       *)
(* operation, or one access to shared memory with the unlock that follows. *)
(*   conc.g[g]            goroutine g: where it is (pc) and its locals     *)
(*   conc.heap            the baseDirIconCache objects allocated so far    *)
(*   conc.dirCache        il.dirCache: base directory -> index in heap     *)
(*   conc.themeInfoCache  il.themeInfoCache                                *)
(*   conc.mu              il.mu: the writer (0: none), the readers, and    *)
(*                        the writer that waits for the readers to leave   *)
(*   conc.walked          the (directory, modification time) pairs walked  *)
(*   conc.rewalked        a directory was walked twice at one mod. time    *)
(*   conc.fatal           the Go runtime has ended the process             *)

Goroutines == {1, 2}

\* a goroutine between calls; cacheEntry 0 is nil
IdleCall ==
    [pc |-> "idle", dir |-> "", path |-> "", theme |-> "", cacheEntry |-> 0,
     exists |-> FALSE, t |-> 0, info |-> ZeroThemeInfo, left |-> MaxCalls, ret |-> "none"]

\* everything but conc
libraryVars == <<scn, theme, fallbackTheme, defaultSize, defaultScale, prev,
                 themeInfoCache, dirCache, fsFiles, fsMtime, fsPresent, fsOps,
                 now, last, sz, env, th, ld, wk>>

\* il.dirCache with the pointers followed
Snapshots == [b \in DOMAIN conc.dirCache |-> conc.heap[conc.dirCache[b]]]

\* the state a step of a concurrent call works on
ConcWorld ==
    [tic |-> conc.themeInfoCache, dc |-> Snapshots,
     files |-> fsFiles, mtime |-> fsMtime, present |-> fsPresent,
     idx |-> Installation(scn).idx, now |-> now,
     walks |-> 0, dropped |-> FALSE, crashed |-> FALSE]

\* NewIconLookupWithConfig, then the goroutines are started
InitConc ==
    /\ scn \in ConcInstallations
    /\ theme = Installation(scn).theme
    /\ fallbackTheme = Installation(scn).fallbackTheme
    /\ defaultSize = OrDefault(0, 48)
    /\ defaultScale = OrDefault(0, 1)
    /\ prev = NoCalls
    /\ themeInfoCache = <<>>
    /\ dirCache = <<>>
    /\ \E F \in SUBSET Installation(scn).universe :
          /\ Cardinality(F) <= MaxFiles
          /\ fsFiles = FilesOf(F)
    /\ fsMtime = [b \in BaseDirSet |-> 0]
    /\ fsPresent = [b \in BaseDirSet |-> TRUE]
    /\ fsOps = 0
    /\ now = 0
    /\ last = NoCall
    /\ sz = NoSizing
    /\ env = NoEnv
    /\ th = NoTheme
    /\ ld = NoLoad
    /\ wk = NoWalk
    /\ \E w \in {createInitialCache(
                    [tic |-> <<>>, dc |-> <<>>,
                     files |-> fsFiles, mtime |-> fsMtime, present |-> fsPresent,
                     idx |-> Installation(scn).idx, now |-> now,
                     walks |-> 0, dropped |-> FALSE, crashed |-> FALSE], 1)} :
          conc = [g              |-> [g \in Goroutines |-> IdleCall],
                  heap           |-> [i \in 1..Len(GetBaseDirs) |-> w.dc[GetBaseDirs[i]]],
                  dirCache       |-> [b \in BaseDirSet |->
                                         CHOOSE i \in 1..Len(GetBaseDirs) : GetBaseDirs[i] = b],
                  themeInfoCache |-> w.tic,
                  mu             |-> [w |-> 0, r |-> {}, pend |-> 0],
                  walked         |-> {<<b, fsMtime[b]>> : b \in BaseDirSet},
                  rewalked       |-> FALSE,
                  fatal          |-> FALSE]

\* a goroutine enters il.fileExists(baseDir, iconPath), line 224
CallFileExists(g, baseDir, iconPath) ==
    /\ ~conc.fatal
    /\ conc.g[g].pc = "idle"
    /\ conc.g[g].left > 0
    /\ conc' = [conc EXCEPT !.g[g] = [IdleCall EXCEPT !.pc = "rlock1", !.dir = baseDir,
                                                      !.path = iconPath,
                                                      !.left = conc.g[g].left - 1]]
    /\ UNCHANGED libraryVars

\* a goroutine enters il.getThemeInfo(theme), part_000 line 58
CallGetThemeInfo(g, themeName) ==
    /\ ~conc.fatal
    /\ conc.g[g].pc = "idle"
    /\ conc.g[g].left > 0
    /\ conc' = [conc EXCEPT !.g[g] = [IdleCall EXCEPT !.pc = "trlock", !.theme = themeName,
                                                      !.left = conc.g[g].left - 1]]
    /\ UNCHANGED libraryVars

\* where each il.mu.RLock() leads: lookup.go 225 and 248, part_000 59
AfterRLock == ("rlock1" :> "read") @@ ("rlock2" :> "files") @@ ("trlock" :> "tread")

\* where each il.mu.Lock() leads: part_000 100, lookup.go 233 and 238
AfterLock ==
    ("lockDelete" :> "delete") @@ ("lockRefresh" :> "refresh") @@ ("lockStamp" :> "stamp")

\* il.mu.RLock(): granted while no writer holds the lock or waits for it
AcquireRead(g) ==
    /\ ~conc.fatal
    /\ conc.g[g].pc \in DOMAIN AfterRLock
    /\ conc.mu.w = 0 /\ conc.mu.pend = 0
    /\ conc' = [conc EXCEPT !.g[g].pc = AfterRLock[conc.g[g].pc],
                            !.mu.r = @ \cup {g}]
    /\ UNCHANGED libraryVars

\* il.mu.Lock(), first half: the writer, alone among writers, keeps new readers out
AnnounceWrite(g) ==
    /\ ~conc.fatal
    /\ conc.g[g].pc \in DOMAIN AfterLock
    /\ conc.mu.w = 0 /\ conc.mu.pend = 0
    /\ conc' = [conc EXCEPT !.mu.pend = g]
    /\ UNCHANGED libraryVars

\* il.mu.Lock(), second half: granted once the readers have left
AcquireWrite(g) ==
    /\ ~conc.fatal
    /\ conc.g[g].pc \in DOMAIN AfterLock
    /\ conc.mu.pend = g /\ conc.mu.r = {}
    /\ conc' = [conc EXCEPT !.g[g].pc = AfterLock[conc.g[g].pc],
                            !.mu.w = g, !.mu.pend = 0]
    /\ UNCHANGED libraryVars

\* fileExists lines 226-227: cacheEntry, exists := il.dirCache[baseDir]; RUnlock
ReadEntry(g) ==
    /\ ~conc.fatal
    /\ conc.g[g].pc = "read"
    /\ LET has == conc.g[g].dir \in DOMAIN conc.dirCache
       IN  conc' = [conc EXCEPT !.g[g].pc = "stale",
                                !.g[g].exists = has,
                                !.g[g].cacheEntry =
                                    IF has THEN conc.dirCache[conc.g[g].dir] ELSE 0,
                                !.mu.r = @ \ {g}]
    /\ UNCHANGED libraryVars

\* what a read of cacheEntry.lastStat made without the lock can give: the value
\* stored, or the one another goroutine is storing at line 239
LastStatSeen(g) ==
    {conc.heap[conc.g[g].cacheEntry].lastStat}
    \cup {conc.g[h].t : h \in {k \in Goroutines \ {g} :
                                  /\ conc.g[k].pc = "stamp"
                                  /\ conc.g[k].cacheEntry = conc.g[g].cacheEntry}}

\* fileExists lines 229-231 and shouldRefreshCache lines 90-92: now := time.Now(),
\* the test of exists and the first read of cacheEntry.lastStat
CheckStale(g) ==
    /\ ~conc.fatal
    /\ conc.g[g].pc = "stale"
    /\ IF ~conc.g[g].exists
       THEN conc' = [conc EXCEPT !.g[g].pc = "lockRefresh", !.g[g].t = now]
       ELSE \E lastStat \in LastStatSeen(g) :
               conc' = [conc EXCEPT !.g[g].t = now,
                                    !.g[g].pc =
                                        IF now - lastStat >= cacheValidCheckInterval
                                        THEN "recheck" ELSE "rlock2"]
    /\ UNCHANGED libraryVars

\* shouldRefreshCache lines 94-96: the second read of cacheEntry.lastStat
RecheckStale(g) ==
    /\ ~conc.fatal
    /\ conc.g[g].pc = "recheck"
    /\ \E lastStat \in LastStatSeen(g) :
          conc' = [conc EXCEPT !.g[g].pc =
                                   IF conc.g[g].t - lastStat < cacheValidCheckInterval
                                   THEN "lockStamp" ELSE "stat"]
    /\ UNCHANGED libraryVars

\* shouldRefreshCache lines 98-106: os.Stat(baseDir) and the comparison of the
\* modification times
StatBaseDir(g) ==
    /\ ~conc.fatal
    /\ conc.g[g].pc = "stat"
    /\ conc' = [conc EXCEPT !.g[g].pc =
                                IF ~fsPresent[conc.g[g].dir] THEN "lockDelete"
                                ELSE IF fsMtime[conc.g[g].dir]
                                           # conc.heap[conc.g[g].cacheEntry].mtime
                                THEN "lockRefresh"
                                ELSE "lockStamp"]
    /\ UNCHANGED libraryVars

\* DeleteEntry leaving without il.mu.Unlock()
DeleteEntry_LockKept(g) ==
    /\ ~conc.fatal
    /\ conc.g[g].pc = "delete"
    /\ conc' = [conc EXCEPT !.g[g].pc = "lockStamp",
                            !.dirCache = [b \in DOMAIN conc.dirCache \ {conc.g[g].dir} |->
                                             conc.dirCache[b]]]
    /\ UNCHANGED libraryVars

\* shouldRefreshCache lines 101-103: delete(il.dirCache, baseDir); Unlock; the caller
\* goes on at `else if exists`
DeleteEntry(g) ==
    /\ ~conc.fatal
    /\ conc.g[g].pc = "delete"
    /\ conc' = [conc EXCEPT !.g[g].pc = "lockStamp",
                            !.dirCache = [b \in DOMAIN conc.dirCache \ {conc.g[g].dir} |->
                                             conc.dirCache[b]],
                            !.mu.w = 0]
    /\ UNCHANGED libraryVars

\* fileExists lines 234-236 and 244-246: cacheBaseDirectory(baseDir),
\* cacheEntry = il.dirCache[baseDir], Unlock; a nil cacheEntry returns false
RefreshEntry(g) ==
    /\ ~conc.fatal
    /\ conc.g[g].pc = "refresh"
    /\ \E w \in {cacheBaseDirectory(ConcWorld, conc.g[g].dir)} :
          LET b      == conc.g[g].dir
              walks  == w.walks = 1
              heap   == IF walks THEN Append(conc.heap, w.dc[b]) ELSE conc.heap
              table  == IF walks
                        THEN [d \in DOMAIN conc.dirCache \cup {b} |->
                                 IF d = b THEN Len(heap) ELSE conc.dirCache[d]]
                        ELSE conc.dirCache
              entry  == IF b \in DOMAIN table THEN table[b] ELSE 0
          IN  conc' = [conc EXCEPT
                          !.heap = heap,
                          !.dirCache = table,
                          !.themeInfoCache = w.tic,
                          !.walked = IF walks THEN @ \cup {<<b, fsMtime[b]>>} ELSE @,
                          !.rewalked = @ \/ (walks /\ <<b, fsMtime[b]>> \in conc.walked),
                          !.mu.w = 0,
                          !.g[g].cacheEntry = entry,
                          !.g[g].pc = IF entry = 0 THEN "idle" ELSE "rlock2",
                          !.g[g].ret = IF entry = 0 THEN "false" ELSE "none"]
    /\ UNCHANGED libraryVars

\* fileExists lines 239-240: cacheEntry.lastStat = now; Unlock
StampEntry(g) ==
    /\ ~conc.fatal
    /\ conc.g[g].pc = "stamp"
    /\ conc' = [conc EXCEPT !.heap[conc.g[g].cacheEntry].lastStat = conc.g[g].t,
                            !.mu.w = 0,
                            !.g[g].pc = "rlock2"]
    /\ UNCHANGED libraryVars

\* fileExists lines 249-251: return cacheEntry.files[iconPath], with the deferred RUnlock
ReadFiles(g) ==
    /\ ~conc.fatal
    /\ conc.g[g].pc = "files"
    /\ conc' = [conc EXCEPT
                   !.g[g].pc = "idle",
                   !.g[g].ret = IF snapshotHas(conc.heap[conc.g[g].cacheEntry],
                                               conc.g[g].path)
                                THEN "true" ELSE "false",
                   !.mu.r = @ \ {g}]
    /\ UNCHANGED libraryVars

\* getThemeInfo lines 60-76: themeInfo, ok := il.themeInfoCache[theme]; RUnlock; on a
\* miss the descriptor is read from the base directories
ReadThemeEntry(g) ==
    /\ ~conc.fatal
    /\ conc.g[g].pc = "tread"
    /\ IF conc.g[g].theme \in DOMAIN conc.themeInfoCache
       THEN conc' = [conc EXCEPT !.g[g].pc = "idle", !.g[g].ret = "found",
                                 !.g[g].info = conc.themeInfoCache[conc.g[g].theme],
                                 !.mu.r = @ \ {g}]
       ELSE \E r \in {getThemeInfoFrom(ConcWorld, conc.g[g].theme, 1)} :
               conc' = [conc EXCEPT !.g[g].pc = IF r.err THEN "idle" ELSE "twrite",
                                    !.g[g].ret = IF r.err THEN "error" ELSE "none",
                                    !.g[g].info = r.info,
                                    !.mu.r = @ \ {g}]
    /\ UNCHANGED libraryVars

\* getThemeInfo lines 78-79: il.themeInfoCache[theme] = *themeInfo; return
WriteThemeEntry(g) ==
    /\ ~conc.fatal
    /\ conc.g[g].pc = "twrite"
    /\ conc' = [conc EXCEPT
                   !.themeInfoCache =
                       [t \in DOMAIN conc.themeInfoCache \cup {conc.g[g].theme} |->
                           IF t = conc.g[g].theme THEN conc.g[g].info
                           ELSE conc.themeInfoCache[t]],
                   !.g[g].pc = "idle",
                   !.g[g].ret = "found"]
    /\ UNCHANGED libraryVars

\* the write of line 78 meets another goroutine's read (line 60) or write (line 78) of
\* the same map: the runtime may end the process (concurrent map read and map write,
\* concurrent map writes)
MapFault(g) ==
    /\ ~conc.fatal
    /\ conc.g[g].pc = "twrite"
    /\ \E h \in Goroutines \ {g} : conc.g[h].pc \in {"tread", "twrite"}
    /\ conc' = [conc EXCEPT !.fatal = TRUE]
    /\ UNCHANGED libraryVars

\* the steps of goroutine g within a call
Proceed(g) ==
    \/ AcquireRead(g)
    \/ AnnounceWrite(g)
    \/ AcquireWrite(g)
    \/ ReadEntry(g)
    \/ CheckStale(g)
    \/ RecheckStale(g)
    \/ StatBaseDir(g)
    \/ DeleteEntry(g)
    \/ RefreshEntry(g)
    \/ StampEntry(g)
    \/ ReadFiles(g)
    \/ ReadThemeEntry(g)
    \/ WriteThemeEntry(g)

\* the clock, the filesystem (their steps leave conc alone) and the goroutines
NextConc ==
    \/ \E g \in Goroutines : \E f \in Installation(scn).universe :
          CallFileExists(g, f[1], f[2])
    \/ \E g \in Goroutines : CallGetThemeInfo(g, Installation(scn).theme)
    \/ \E g \in Goroutines : Proceed(g)
    \/ \E g \in Goroutines : MapFault(g)
    \/ Tick(cacheValidCheckInterval)
    \/ \E f \in Installation(scn).universe : AddFile(f, TRUE)
    \/ \E b \in BaseDirSet : RemoveBaseDir(b)

SpecConc == InitConc /\ [][NextConc]_vars

\* the scheduler runs every goroutine that can take a step
SpecConcFair == SpecConc /\ \A g \in Goroutines : WF_vars(Proceed(g))

-----------------------------------------------------------------------------
(* Loading Theme Records: getThemeInfo and the public API over descriptors *)
(* that are missing, do not load, or lack a required section or key.       *)

\* the keys a [d1] section may carry
SectionInputs ==
    [Size : {NoKey, BadKey, IntKey(48)},
     Scale : {NoKey, IntKey(2)},
     Type : {NoStrKey, StrKey(""), StrKey("Fixed"), StrKey("Scalable"), StrKey("Foo")},
     MaxSize : {NoKey, IntKey(64)},
     MinSize : {NoKey, IntKey(16)},
     Threshold : {NoKey, IntKey(4)}]

\* an index.theme of A listing d1 in Directories and d2 in ScaledDirectories
PrimaryDescriptor(sections) ==
    Descriptor("A", <<"d1">>, ListKey(<<"d2">>), ListKey(<<"B", "C">>), sections)

\* index.theme files that ini.Load rejects or that lack [Icon Theme], Name or Directories
HeaderlessDescriptors ==
    LET d == PrimaryDescriptor(("d1" :> FixedSection(48, 1)) @@ ("d2" :> FixedSection(48, 2)))
    IN  {[d EXCEPT !.loads = FALSE], [d EXCEPT !.hasMain = FALSE],
         [d EXCEPT !.Name = NoStrKey], [d EXCEPT !.Directories = NoListKey]}

\* the index.theme files of A in the first base directory
PrimaryDescriptorInputs ==
    HeaderlessDescriptors
    \cup {PrimaryDescriptor(("d1" :> s) @@ ("d2" :> FixedSection(48, 2))) : s \in SectionInputs}
    \cup {PrimaryDescriptor(("d1" :> FixedSection(48, 1)))}

\* those of them the other descriptors are varied against
RepresentativeDescriptors ==
    {[PrimaryDescriptor(<<>>) EXCEPT !.loads = FALSE],
     PrimaryDescriptor(("d1" :> FixedSection(48, 1))),
     PrimaryDescriptor(("d1" :> [FixedSection(48, 1) EXCEPT !.Size = NoKey]) @@
                       ("d2" :> FixedSection(48, 2))),
     PrimaryDescriptor(("d1" :> SizeOnlySection(48)) @@ ("d2" :> FixedSection(48, 2)))}

\* the index.theme files of a theme elsewhere: one that loads, one whose [d1] lacks Size
OtherDescriptorInputs(name, inherits) ==
    {Descriptor(name, <<"d1">>, NoListKey, inherits, ("d1" :> FixedSection(48, 1))),
     Descriptor(name, <<"d1">>, NoListKey, inherits,
                ("d1" :> [FixedSection(48, 1) EXCEPT !.Size = NoKey]))}

\* <directory>/<themeName>/index.theme is absent or is one of D
OnDisk(directory, themeName, D) ==
    {<<>>} \cup {(<<directory, themeName>> :> d) : d \in D}

\* what InitLoad draws: A in both base directories, B, and the icon files
LoadInputs ==
    LET some == Installation("load").universe
                   \ ThemedFiles({Base1}, "B", {"d1"}, "a", {"png"})
    IN  (OnDisk(Base1, "A", PrimaryDescriptorInputs) \X {<<>>}
            \X {(<<Base1, "B">> :> d) : d \in {Descriptor("B", <<"d1">>, NoListKey, NoListKey,
                                                          ("d1" :> FixedSection(48, 1)))}}
            \X {some})
        \cup
        (OnDisk(Base1, "A", RepresentativeDescriptors)
            \X OnDisk(Pixmaps, "A", OtherDescriptorInputs("A2", ListKey(<<"B", "C">>)))
            \X OnDisk(Base1, "B", OtherDescriptorInputs("B", NoListKey))
            \X {F \in SUBSET Installation("load").universe : Cardinality(F) <= MaxFiles})

\* no getThemeInfo has returned yet
NoRet == [theme |-> "", err |-> FALSE, info |-> ZeroThemeInfo]

\* NewIconLookupWithConfig over the descriptors and icon files drawn
InitLoad ==
    /\ scn \in LoadInstallations
    /\ theme = Installation(scn).theme
    /\ fallbackTheme = Installation(scn).fallbackTheme
    /\ defaultSize = OrDefault(0, 48)
    /\ defaultScale = OrDefault(0, 1)
    /\ prev = NoCalls
    /\ \E in \in LoadInputs :
          /\ ld = [idx |-> in[1] @@ in[2] @@ in[3] @@ Installation(scn).idx, ret |-> NoRet]
          /\ fsFiles = FilesOf(in[4])
    /\ fsMtime = [b \in BaseDirSet |-> 0]
    /\ fsPresent = [b \in BaseDirSet |-> TRUE]
    /\ fsOps = 0
    /\ now = 0
    /\ \E w \in {createInitialCache(
                    [tic |-> <<>>, dc |-> <<>>,
                     files |-> fsFiles, mtime |-> fsMtime, present |-> fsPresent,
                     idx |-> ld.idx, now |-> now,
                     walks |-> 0, dropped |-> FALSE, crashed |-> FALSE], 1)} :
          /\ themeInfoCache = w.tic
          /\ dirCache = w.dc
    /\ last = NoCall
    /\ sz = NoSizing
    /\ env = NoEnv
    /\ th = NoTheme
    /\ conc = NoConc
    /\ wk = NoWalk

\* il.getThemeInfo(themeName)
DoGetThemeInfo(themeName) ==
    /\ scn \in LoadInstallations
    /\ \E r \in {getThemeInfo(World, themeName)} :
          /\ themeInfoCache' = r.w.tic
          /\ ld' = [ld EXCEPT !.ret = [theme |-> themeName, err |-> r.err, info |-> r.info]]
          /\ last' = [NoCall EXCEPT !.op = "getThemeInfo", !.name = themeName,
                                    !.err = r.err]
    /\ UNCHANGED <<scn, theme, fallbackTheme, defaultSize, defaultScale, prev, dirCache,
                   fsFiles, fsMtime, fsPresent, fsOps, now, sz, env, th, conc, wk>>

NextLoad ==
    \/ \E t \in {"A", "B"} : DoGetThemeInfo(t)
    \/ \E q \in Installation(scn).requests : DoFindIcon(q[1], q[2], q[3])
    \/ \E l \in Installation(scn).lists : DoFindBestIcon(l, 48, 1)

SpecLoad == InitLoad /\ [][NextLoad]_vars

-----------------------------------------------------------------------------
(* The walk of a base directory: entries of every kind beneath it, and the *)
(* filesystem changing between the os.Stat, the walk and the store of      *)
(* cacheBaseDirectory.                                                     *)

\* the entries a walk of the first base directory can meet
ThemeDirPath == Join2(Base1, "hicolor")
NestedPath == Join2(ThemeDirPath, "a.png")
TopPath == Join2(Base1, "x.png")
WalkPaths == {ThemeDirPath, NestedPath, TopPath}

\* the directory an entry lies in
Parent == (ThemeDirPath :> Base1) @@ (NestedPath :> ThemeDirPath) @@ (TopPath :> Base1)

\* what may be found at a path: nothing, a regular file, a directory, a directory that
\* cannot be read, a symbolic link, a named pipe
KindsAt(p) ==
    IF p = ThemeDirPath THEN {"none", "dir", "noperm", "symlink"}
    ELSE IF p = NestedPath THEN {"none", "file", "symlink"}
    ELSE {"none", "file", "symlink", "fifo"}

TreeInputs ==
    {t \in [WalkPaths \cup {Base1} -> {"none", "file", "dir", "noperm", "symlink", "fifo"}] :
        /\ t[Base1] = "dir"
        /\ \A p \in WalkPaths : t[p] \in KindsAt(p)}

\* d.IsDir() of the DirEntry that Lstat or ReadDir gives: a symbolic link is not one
IsDir(kind) == kind \in {"dir", "noperm"}

\* filepath.WalkDir with the callback of lines 34-42: the callback adds an entry that
\* is not a directory; a directory is read and its entries walked; the callback
\* swallows the error of a directory that cannot be read
RECURSIVE walkDir(_, _)
walkDir(tree, path) ==
    IF ~IsDir(tree[path]) THEN {path}
    ELSE IF tree[path] = "noperm" THEN {}
    ELSE UNION {walkDir(tree, q) : q \in {c \in WalkPaths : Parent[c] = path
                                                             /\ tree[c] # "none"}}

WalkDirIn(tree, dirPath) == walkDir(tree, dirPath)

\* the state cacheBaseDirectory and fileExists work on in SpecWalk
WalkWorld ==
    [World EXCEPT !.files = [b \in BaseDirSet |->
                                IF b = Base1 THEN WalkDirIn(wk.tree, b) ELSE {}]]

\* NewIconLookupWithConfig is about to call createInitialCache
InitWalk ==
    /\ scn \in WalkInstallations
    /\ theme = Installation(scn).theme
    /\ fallbackTheme = Installation(scn).fallbackTheme
    /\ defaultSize = OrDefault(0, 48)
    /\ defaultScale = OrDefault(0, 1)
    /\ prev = NoCalls
    /\ themeInfoCache = <<>>
    /\ dirCache = <<>>
    /\ fsFiles = [b \in BaseDirSet |-> {}]
    /\ fsMtime = [b \in BaseDirSet |-> 0]
    /\ fsPresent = [b \in BaseDirSet |-> b = Base1]
    /\ fsOps = 0
    /\ now = 0
    /\ last = NoCall
    /\ sz = NoSizing
    /\ env = NoEnv
    /\ th = NoTheme
    /\ conc = NoConc
    /\ ld = NoLoad
    /\ \E t \in TreeInputs :
          wk = [tree |-> t, pc |-> "new", stat |-> [err |-> FALSE, mtime |-> 0],
                files |-> {}, walkTree |-> t, q |-> "", begun |-> t,
                reval |-> FALSE, quiet |-> FALSE, missed |-> FALSE]

walkVars == <<scn, theme, fallbackTheme, defaultSize, defaultScale, prev,
              fsFiles, fsPresent, sz, env, th, conc, ld>>

\* createInitialCache, cacheBaseDirectory line 27: the os.Stat of the base directory
ConstructStat ==
    /\ scn \in WalkInstallations
    /\ wk.pc = "new"
    /\ wk' = [wk EXCEPT !.stat = cacheBaseDirectoryStat(WalkWorld, Base1),
                        !.pc = "constructWalk"]
    /\ last' = NoCall
    /\ UNCHANGED <<walkVars, themeInfoCache, dirCache, fsMtime, fsOps, now>>

\* cacheBaseDirectory lines 32-45: the walk
Walk ==
    /\ scn \in WalkInstallations
    /\ wk.pc \in {"constructWalk", "queryWalk"}
    /\ wk' = [wk EXCEPT !.files = WalkDir(WalkWorld, Base1),
                        !.walkTree = wk.tree,
                        !.pc = IF wk.pc = "constructWalk" THEN "constructStore"
                               ELSE "queryStore"]
    /\ last' = NoCall
    /\ UNCHANGED <<walkVars, themeInfoCache, dirCache, fsMtime, fsOps, now>>

\* cacheBaseDirectory lines 48-55 and the return of NewIconLookupWithConfig
ConstructStore ==
    /\ scn \in WalkInstallations
    /\ wk.pc = "constructStore"
    /\ \E w \in {cacheBaseDirectoryStore(WalkWorld, Base1, wk.stat, wk.files)} :
          /\ themeInfoCache' = w.tic
          /\ dirCache' = w.dc
    /\ wk' = [wk EXCEPT !.pc = "idle"]
    /\ last' = NoCall
    /\ UNCHANGED <<walkVars, fsMtime, fsOps, now>>

\* il.fileExists(Base1, iconPath) up to the os.Stat of cacheBaseDirectory when the
\* snapshot is to be refreshed, and to its return when it is not
QueryStat(iconPath) ==
    /\ scn \in WalkInstallations
    /\ wk.pc = "idle"
    /\ LET exists == Base1 \in DOMAIN dirCache
           entry0 == IF exists THEN dirCache[Base1]
                     ELSE [files |-> {}, mtime |-> 0, lastStat |-> 0]
           stale  == ~exists \/ now - entry0.lastStat >= cacheValidCheckInterval
       IN  \E sr \in {shouldRefreshCache(WalkWorld, Base1, exists, entry0)} :
           IF stale /\ sr.refresh /\ fsPresent[Base1]
           THEN /\ wk' = [wk EXCEPT !.stat = cacheBaseDirectoryStat(sr.w, Base1),
                                    !.pc = "queryWalk", !.q = iconPath,
                                    !.begun = wk.tree]
                /\ last' = NoCall
                /\ UNCHANGED <<themeInfoCache, dirCache>>
           ELSE \E r \in {fileExists(WalkWorld, Base1, iconPath)} :
                /\ themeInfoCache' = r.w.tic
                /\ dirCache' = r.w.dc
                /\ wk' = [wk EXCEPT !.q = iconPath, !.begun = wk.tree, !.reval = stale]
                /\ last' = [NoCall EXCEPT !.op = "fileExists", !.name = iconPath,
                                          !.dir = Base1, !.err = ~r.ok,
                                          !.at = now, !.ops = fsOps]
    /\ UNCHANGED <<walkVars, fsMtime, fsOps, now>>

\* cacheBaseDirectory lines 48-55 and fileExists lines 235-251
QueryStore ==
    /\ scn \in WalkInstallations
    /\ wk.pc = "queryStore"
    /\ \E w \in {cacheBaseDirectoryStore(WalkWorld, Base1, wk.stat, wk.files)} :
          /\ themeInfoCache' = w.tic
          /\ dirCache' = w.dc
          /\ last' = [NoCall EXCEPT !.op = "fileExists", !.name = wk.q, !.dir = Base1,
                                    !.err = ~snapshotHas(w.dc[Base1], wk.q),
                                    !.walks = 1, !.at = now, !.ops = fsOps]
    /\ wk' = [wk EXCEPT !.pc = "idle", !.reval = TRUE]
    /\ UNCHANGED <<walkVars, fsMtime, fsOps, now>>

\* another process creates, removes or replaces the entry at p; the base directory's
\* modification time changes when the entry lies in the base directory itself
ModifyEntry(p, kind) ==
    /\ scn \in WalkInstallations
    /\ fsOps < MaxFsOps
    /\ kind \in KindsAt(p) \ {wk.tree[p]}
    /\ wk' = [wk EXCEPT !.tree[p] = kind,
                        !.quiet = @ \/ Parent[p] # Base1,
                        !.missed = @ \/ (Parent[p] = Base1
                                         /\ wk.pc \in {"constructStore", "queryStore"})]
    /\ fsMtime' = IF Parent[p] = Base1 THEN [fsMtime EXCEPT ![Base1] = @ + 1] ELSE fsMtime
    /\ fsOps' = fsOps + 1
    /\ last' = NoCall
    /\ UNCHANGED <<walkVars, themeInfoCache, dirCache, now>>

NextWalk ==
    \/ ConstructStat
    \/ Walk
    \/ ConstructStore
    \/ \E p \in {NestedPath, TopPath} : QueryStat(p)
    \/ QueryStore
    \/ \E p \in WalkPaths : \E k \in KindsAt(p) : ModifyEntry(p, k)
    \/ Tick(cacheValidCheckInterval)

SpecWalk == InitWalk /\ [][NextWalk]_vars

-----------------------------------------------------------------------------
(* Vocabulary of the claims about the engine.                              *)

\* a FindIcon call has just returned
JustReturned == last.op = "FindIcon"

\* ... and it ran against one snapshot per base directory and one record per theme:
\* it deleted no snapshot while it ran, did not exhaust the stack, and the theme table
\* it started from held what the descriptors on disk give
Settled == JustReturned /\ ~last.dropped /\ ~last.crashed /\ last.coherent

\* iconPath is in the snapshot of base directory `directory`
InSnapshot(directory, iconPath) ==
    directory \in DOMAIN dirCache /\ iconPath \in dirCache[directory].files

\* candidates of lookupIcon as (subdirectory index, base directory index, extension index)
CandidateIdx(themeInfo) ==
    (1..Len(AllDirectories(themeInfo))) \X (1..Len(GetBaseDirs)) \X (1..Len(extensions))

SubdirAt(themeInfo, c) == AllDirectories(themeInfo)[c[1]]

PathAt(themeName, themeInfo, iconName, c) ==
    ThemedIconPath(GetBaseDirs[c[2]], themeName, SubdirAt(themeInfo, c), iconName,
                   extensions[c[3]])

\* the candidates whose file is in its base directory's snapshot
Hits(themeName, themeInfo, iconName) ==
    {c \in CandidateIdx(themeInfo) :
        InSnapshot(GetBaseDirs[c[2]], PathAt(themeName, themeInfo, iconName, c))}

\* ... in a subdirectory whose rule matches the request exactly
ExactHits(themeName, themeInfo, iconName, size, scale) ==
    {c \in Hits(themeName, themeInfo, iconName) :
        directoryMatchesSize(themeInfo, SubdirAt(themeInfo, c), size, scale)}

\* the Icon the claims expect for candidate c: the path, the name and the rule's numbers
IconAt(themeName, themeInfo, iconName, c) ==
    [Name    |-> iconName,
     Path    |-> PathAt(themeName, themeInfo, iconName, c),
     Size    |-> themeInfo.directoryMap[SubdirAt(themeInfo, c)].Size,
     MinSize |-> themeInfo.directoryMap[SubdirAt(themeInfo, c)].MinSize,
     MaxSize |-> themeInfo.directoryMap[SubdirAt(themeInfo, c)].MaxSize,
     Scale   |-> themeInfo.directoryMap[SubdirAt(themeInfo, c)].Scale]

-----------------------------------------------------------------------------
(* C1: FindIcon on a loadable primary theme, when some declared            *)
(* subdirectory matches (size, scale) exactly and holds <name>.<ext> in    *)
(* its base directory's snapshot, returns no error and an Icon whose Path  *)
(* is such a file, whose Name is the name asked for and whose Size,        *)
(* MinSize, MaxSize and Scale are those of that subdirectory's rule.       *)
C1_ExactMatchIsReturned ==
    Settled =>
        \A d \in {ThemeOnDisk(theme)} :
            \A hits \in {IF d.err THEN {}
                         ELSE ExactHits(theme, d.info, last.name, last.size, last.scale)} :
                hits # {} =>
                    /\ ~last.err
                    /\ \E c \in hits : last.icon = IconAt(theme, d.info, last.name, c)

\* hicolor/48x48/apps/sample.png, Fixed 48 scale 1, asked for at (48, 1)
C1_Witness ==
    /\ Settled
    /\ scn = "solefixed"
    /\ ~last.err
    /\ last.size = 48 /\ last.scale = 1
    /\ last.icon = [Name |-> "sample",
                    Path |-> "/usr/share/icons/hicolor/48x48/apps/sample.png",
                    Size |-> 48, MinSize |-> 48, MaxSize |-> 48, Scale |-> 1]

-----------------------------------------------------------------------------
(* C2: for an icon name present under no searched base directory -- in no  *)
(* declared subdirectory of any theme reachable from the primary theme or  *)
(* from the configured fallback theme, and not as <base>/<name>.<ext> --   *)
(* FindIcon returns NotFound: an error and the zero Icon.                  *)

\* the themes reachable through inherits from the themes of S
RECURSIVE ReachableThemes(_)
ReachableThemes(S) ==
    Bind(S \cup UNION {Range(ThemeOnDisk(t).info.Inherits) : t \in S}, LAMBDA more :
         IF more = S THEN S ELSE ReachableThemes(more))

SearchedThemes ==
    ReachableThemes({theme} \cup (IF fallbackTheme = "" THEN {} ELSE {fallbackTheme}))

ThemedPresent(iconName) ==
    \E t \in SearchedThemes :
        \E d \in {ThemeOnDisk(t)} : ~d.err /\ Hits(t, d.info, iconName) # {}

FallbackPresent(iconName) ==
    \E b \in BaseDirSet : \E e \in Range(extensions) :
        InSnapshot(b, FallbackIconPath(b, iconName, e))

C2_AbsentNameIsNotFound ==
    (Settled /\ ~ThemedPresent(last.name) /\ ~FallbackPresent(last.name))
        => (last.err /\ last.icon = ZeroIcon)

\* "b" is asked for where only icons named "a" are installed
C2_Witness ==
    /\ Settled
    /\ scn = "inherit"
    /\ last.name = "b"
    /\ ThemedPresent("a")
    /\ FallbackPresent("a")
    /\ ~ThemedPresent("b") /\ ~FallbackPresent("b")
    /\ last.err

-----------------------------------------------------------------------------
(* Order of the candidates and their distances.                            *)

\* a comes before b in iteration order: subdirectory, then base directory, then extension
LexLess(a, b) ==
    \/ a[1] < b[1]
    \/ a[1] = b[1] /\ a[2] < b[2]
    \/ a[1] = b[1] /\ a[2] = b[2] /\ a[3] < b[3]

\* the first candidate of S in iteration order
First(S) == CHOOSE m \in S : \A x \in S \ {m} : LexLess(m, x)

\* the candidates of S whose subdirectory is at the least size distance from the request
Closest(themeInfo, S, size, scale) ==
    {c \in S : \A x \in S :
        directorySizeDistance(themeInfo, SubdirAt(themeInfo, c), size, scale)
            <= directorySizeDistance(themeInfo, SubdirAt(themeInfo, x), size, scale)}

\* the primary theme is loaded, and these are its hits and its exact hits for the call
PrimaryHits ==
    Bind(ThemeOnDisk(theme), LAMBDA d :
         [loaded |-> ~d.err,
          info   |-> d.info,
          any    |-> IF d.err THEN {} ELSE Hits(theme, d.info, last.name),
          exact  |-> IF d.err THEN {}
                     ELSE ExactHits(theme, d.info, last.name, last.size, last.scale)])

-----------------------------------------------------------------------------
(* C3: within one theme a pass-one match outranks every pass-two result:   *)
(* whenever an exactly-matching subdirectory of the theme holds the icon,  *)
(* the file returned is in an exactly-matching subdirectory, whatever      *)
(* distance the other subdirectories score.                                *)
C3_ExactOutranksClosest ==
    Settled =>
        \A h \in {PrimaryHits} :
            h.exact # {} =>
                /\ last.tier = "theme"
                /\ \E c \in h.any :
                      /\ last.icon.Path = PathAt(theme, h.info, last.name, c)
                      /\ directoryMatchesSize(h.info, SubdirAt(h.info, c),
                                              last.size, last.scale)

\* a subdirectory listed earlier holds the icon at distance 0 without matching exactly
\* (24x24@2 for the request (48,1)), and the file of the exact 48x48 is the one returned
C3_Witness ==
    /\ Settled
    /\ scn = "scaled"
    /\ last.size = 48 /\ last.scale = 1
    /\ \E h \in {PrimaryHits} :
          \E c \in h.any \ h.exact :
              /\ directorySizeDistance(h.info, SubdirAt(h.info, c), 48, 1) = 0
              /\ \A x \in h.exact : LexLess(c, x)
    /\ last.icon.Path \in {"/usr/share/icons/hicolor/48x48/apps/a.png",
                           "/usr/share/icons/hicolor/48x48/apps/a.svg"}

-----------------------------------------------------------------------------
(* C4: pass one returns the first existing file in iteration order,        *)
(* subdirectory-major, then base directory, then extension: of the         *)
(* existing candidates in exactly-matching subdirectories, the one with    *)
(* the least (subdirectory, base directory, extension) index.              *)
C4_PassOneOrder ==
    Settled =>
        \A h \in {PrimaryHits} :
            h.exact # {} =>
                /\ ~last.err
                /\ last.icon.Path = PathAt(theme, h.info, last.name, First(h.exact))

\* a.svg in the first base directory wins over a.png in the second
C4_Witness ==
    /\ Settled
    /\ scn = "ordering"
    /\ last.size = 48 /\ last.scale = 1
    /\ InSnapshot(Pixmaps, "/usr/share/pixmaps/hicolor/48x48/apps/a.png")
    /\ last.icon.Path = "/usr/share/icons/hicolor/48x48/apps/a.svg"

-----------------------------------------------------------------------------
(* C5: pass two, reached when pass one found nothing, returns among all    *)
(* existing files of the name in the theme's declared subdirectories one   *)
(* at the least size distance, the first such in iteration order.          *)
C5_ClosestIsReturned ==
    Settled =>
        \A h \in {PrimaryHits} :
            (h.exact = {} /\ h.any # {}) =>
                /\ ~last.err
                /\ last.icon = IconAt(theme, h.info, last.name,
                                      First(Closest(h.info, h.any, last.size, last.scale)))

-----------------------------------------------------------------------------
(* C6: a theme whose sole subdirectory rule is Fixed, size 48, scale 1.    *)

RECURSIVE PreOrderOfAll(_, _)
RECURSIVE PreOrder(_, _)
\* the themes visited from themeName, depth first: the theme itself, then the subtree of
\* each of its parents in listed order; a theme that cannot be loaded is visited, fails,
\* and has no subtree
PreOrder(themeName, depth) ==
    Bind(ThemeOnDisk(themeName), LAMBDA d :
         IF d.err \/ depth >= MaxDepth THEN <<themeName>>
         ELSE <<themeName>> \o PreOrderOfAll(d.info.Inherits, depth + 1))

PreOrderOfAll(parents, depth) ==
    IF parents = <<>> THEN <<>>
    ELSE PreOrder(parents[1], depth) \o PreOrderOfAll(Tail(parents), depth)

\* the loaded primary theme declares exactly one subdirectory, Fixed 48 at scale 1
SoleFixed48(h) ==
    /\ h.loaded
    /\ Len(AllDirectories(h.info)) = 1
    /\ \E r \in {directoryMapGet(h.info, AllDirectories(h.info)[1])} :
          r.Type = "Fixed" /\ r.Size = 48 /\ r.Scale = 1

\* C6 as stated: a request for (47,1) against the sole rule succeeds from the theme
\* only if a match scored in another directory exists (a hit whose subdirectory or
\* base directory is not that of the returned file)
C6_NearMissNeedsAnotherDirectory ==
    Settled =>
        \A h \in {PrimaryHits} :
            (SoleFixed48(h) /\ last.size = 47 /\ last.scale = 1 /\ last.tier = "theme") =>
                \E r \in h.any : \E c \in h.any :
                    /\ last.icon.Path = PathAt(theme, h.info, last.name, r)
                    /\ <<c[1], c[2]>> # <<r[1], r[2]>>

\* C6 amended: against the sole rule Fixed 48 at scale 1, a request for (48,1) matches
\* in pass one and a request for (47,1) does not; either request returns the first
\* existing file of that one subdirectory, with the rule's size 48 and scale 1, and
\* the themed lookup finds nothing exactly when the subdirectory holds no such file.
C6_SoleFixedRule ==
    Settled =>
        \A h \in {PrimaryHits} :
            (SoleFixed48(h) /\ last.scale = 1 /\ last.size \in {47, 48}) =>
                /\ directoryMatchesSize(h.info, AllDirectories(h.info)[1],
                                        last.size, last.scale) <=> (last.size = 48)
                /\ h.any = {} =>
                      /\ lookupIcon(World, last.name, last.size, last.scale, theme).err
                      /\ PreOrder(theme, 1) = <<theme>> => last.tier # "theme"
                /\ h.any # {} =>
                      /\ last.tier = "theme"
                      /\ last.icon = IconAt(theme, h.info, last.name, First(h.any))
                      /\ last.icon.Size = 48 /\ last.icon.Scale = 1

\* the request (47,1) is answered from the sole subdirectory, the only one with the file
C6_Witness ==
    /\ Settled
    /\ scn = "solefixed"
    /\ last.size = 47 /\ last.scale = 1
    /\ \E h \in {PrimaryHits} : SoleFixed48(h) /\ h.any = {<<1, 1, 1>>}
    /\ last.tier = "theme"
    /\ last.icon.Path = "/usr/share/icons/hicolor/48x48/apps/sample.png"

-----------------------------------------------------------------------------
(* The sizing rules, checked under SpecSizing over RuleInputs x SizeInputs. *)

MatchesApplied == scn = "sizing" /\ "matches" \in sz.applied
DistanceApplied == scn = "sizing" /\ "distance" \in sz.applied
LookupApplied == scn = "sizing" /\ "lookup" \in sz.applied

\* the rule's and the request's scaled sizes, as mathematical integers
RuleScaled(n) == n * sz.rule.Scale
ReqScaled == sz.size * sz.scale

\* x fits the int width
InInt(x) == MinInt <= x /\ x <= MaxInt

\* |x| over the mathematical integers
Magnitude(x) == IF x < 0 THEN 0 - x ELSE x

(* C7: for a Threshold rule directoryMatchesSize is true iff the requested *)
(* scale equals the rule's scale and size-threshold <= requested size <=   *)
(* size+threshold; with size 32 and threshold 2 the sizes 30..34 match and *)
(* 29 and 35 do not; and a file in the subdirectory is still found by      *)
(* lookupIcon (pass two) for a request that does not match.                *)
C7_ThresholdRule ==
    (scn = "sizing" /\ sz.rule.Type = "Threshold") =>
        /\ MatchesApplied =>
              /\ sz.matches <=>
                    /\ sz.scale = sz.rule.Scale
                    /\ sz.rule.Size - sz.rule.Threshold <= sz.size
                    /\ sz.size <= sz.rule.Size + sz.rule.Threshold
              /\ (sz.rule.Size = 32 /\ sz.rule.Threshold = 2 /\ sz.scale = sz.rule.Scale) =>
                    /\ sz.size \in {30, 31, 32, 33, 34} => sz.matches
                    /\ sz.size \in {29, 35} => ~sz.matches
        /\ LookupApplied =>
              /\ sz.found
              /\ sz.icon.Path = SizingIconPath

\* size 29 against Threshold 32 +- 2 at the same scale: no match, yet the file is found
C7_Witness ==
    /\ scn = "sizing"
    /\ sz.rule.Type = "Threshold" /\ sz.rule.Size = 32 /\ sz.rule.Threshold = 2
    /\ sz.rule.Scale = 1 /\ sz.scale = 1 /\ sz.size = 29
    /\ MatchesApplied /\ LookupApplied
    /\ ~sz.matches
    /\ sz.found

(* C8: for a Fixed rule directoryMatchesSize is true iff the requested     *)
(* size equals the rule's size and the requested scale the rule's scale,   *)
(* and directorySizeDistance is |ruleSize*ruleScale - reqSize*reqScale|    *)
(* whenever the two products and their difference fit the int width.       *)
C8_FixedRule ==
    (scn = "sizing" /\ sz.rule.Type = "Fixed") =>
        /\ MatchesApplied =>
              (sz.matches <=> (sz.size = sz.rule.Size /\ sz.scale = sz.rule.Scale))
        /\ (/\ DistanceApplied
            /\ InInt(RuleScaled(sz.rule.Size))
            /\ InInt(ReqScaled)
            /\ InInt(RuleScaled(sz.rule.Size) - ReqScaled)) =>
              sz.distance = Magnitude(RuleScaled(sz.rule.Size) - ReqScaled)

\* Fixed 48 at scale 2 against the request (47,1): no match, distance 49
C8_Witness ==
    /\ scn = "sizing"
    /\ sz.rule.Type = "Fixed" /\ sz.rule.Size = 48 /\ sz.rule.Scale = 2
    /\ sz.size = 47 /\ sz.scale = 1
    /\ MatchesApplied /\ DistanceApplied
    /\ ~sz.matches
    /\ sz.distance = 49

(* C9: for a Scalable rule directoryMatchesSize is true iff the requested  *)
(* scale equals the rule's scale and minSize <= requested size <= maxSize, *)
(* and directorySizeDistance is 0 when reqSize*reqScale lies in            *)
(* [minSize*ruleScale, maxSize*ruleScale], the shortfall below it and the  *)
(* excess above it.                                                        *)
C9_ScalableRule ==
    (scn = "sizing" /\ sz.rule.Type = "Scalable") =>
        /\ MatchesApplied =>
              (sz.matches <=>
                  /\ sz.scale = sz.rule.Scale
                  /\ sz.rule.MinSize <= sz.size
                  /\ sz.size <= sz.rule.MaxSize)
        /\ DistanceApplied =>
              /\ (RuleScaled(sz.rule.MinSize) <= ReqScaled
                    /\ ReqScaled <= RuleScaled(sz.rule.MaxSize)) => sz.distance = 0
              /\ ReqScaled < RuleScaled(sz.rule.MinSize) =>
                    sz.distance = RuleScaled(sz.rule.MinSize) - ReqScaled
              /\ (ReqScaled > RuleScaled(sz.rule.MaxSize)
                    /\ ReqScaled >= RuleScaled(sz.rule.MinSize)) =>
                    sz.distance = ReqScaled - RuleScaled(sz.rule.MaxSize)

\* Scalable 16..32 at scale 2 against the request (65,1): no match, one above 64
C9_Witness ==
    /\ scn = "sizing"
    /\ sz.rule.Type = "Scalable" /\ sz.rule.MinSize = 16 /\ sz.rule.MaxSize = 32
    /\ sz.rule.Scale = 2
    /\ sz.size = 65 /\ sz.scale = 1
    /\ MatchesApplied /\ DistanceApplied
    /\ ~sz.matches
    /\ sz.distance = 1

-----------------------------------------------------------------------------
(* C10: the theme-chain search.                                            *)

\* lookupIcon in each theme of the sequence, on the caches the call has left
LookupEach(order) ==
    [i \in 1..Len(order) |->
        Bind(lookupIcon(World, last.name, last.size, last.scale, order[i]), LAMBDA l :
             [err |-> l.err, icon |-> l.icon])]

(* C10: the result of findIconHelper(theme) is the lookupIcon result of    *)
(* the first theme in depth-first pre-order (the theme, then each parent's *)
(* subtree in listed order) for which lookupIcon finds a file, exact or    *)
(* closest-size; if lookupIcon finds none in any of them it fails.         *)
C10_FirstInPreOrder ==
    Settled =>
        \A each \in {LookupEach(PreOrder(theme, 1))} :
            \A finds \in {{i \in DOMAIN each : ~each[i].err}} :
                /\ finds = {} => last.tier # "theme"
                /\ finds # {} =>
                      /\ last.tier = "theme"
                      /\ \E i \in finds :
                            /\ \A j \in finds : i <= j
                            /\ last.icon = each[i].icon

\* A holds the icon at 32 only, its parent B holds it at the requested 48: A's is returned
C10_Witness ==
    /\ Settled
    /\ scn = "inherit"
    /\ last.name = "a" /\ last.size = 48 /\ last.scale = 1
    /\ PreOrder("A", 1) = <<"A", "B", "hicolor", "hicolor">>
    /\ InSnapshot(Base1, "/usr/share/icons/B/48x48/apps/a.png")
    /\ \E d \in {ThemeOnDisk("B")} :
          ~d.err /\ directoryMatchesSize(d.info, "48x48/apps", 48, 1)
    /\ \E d \in {ThemeOnDisk("A")} :
          ~d.err /\ ~directoryMatchesSize(d.info, "32x32/apps", 48, 1)
    /\ last.icon.Path = "/usr/share/icons/A/32x32/apps/a.png"

-----------------------------------------------------------------------------
(* C11: A inherits [B], B lists no parents.                                *)

\* the Inherits list as written in the descriptor that getThemeInfo reads for themeName
\* (the first base directory that has one); <<>> when the key or the descriptor is absent
ListedParents(themeName) ==
    LET at == {i \in 1..Len(GetBaseDirs) :
                  /\ fsPresent[GetBaseDirs[i]]
                  /\ <<GetBaseDirs[i], themeName>> \in DOMAIN Installation(scn).idx}
    IN  IF at = {} THEN <<>>
        ELSE LET first == CHOOSE i \in at : \A k \in at : i <= k
                 d == Installation(scn).idx[<<GetBaseDirs[first], themeName>>]
             IN  IF d.Inherits.has THEN d.Inherits.val ELSE <<>>

\* the primary theme A lists one parent B, B lists none, and all of A, B, hicolor load:
\* [ok, a, parent, b, h] with the Theme Records of A, B and hicolor
ChainOfOneParent ==
    IF Len(ListedParents(theme)) # 1 \/ ListedParents(theme)[1] \in {theme, "hicolor"}
    THEN [ok |-> FALSE]
    ELSE Bind(ThemeOnDisk(theme), LAMBDA a :
         Bind(ThemeOnDisk(ListedParents(theme)[1]), LAMBDA b :
         Bind(ThemeOnDisk("hicolor"), LAMBDA h :
              [ok     |-> /\ ~a.err /\ ~b.err /\ ~h.err
                          /\ ListedParents(ListedParents(theme)[1]) = <<>>,
               a      |-> a.info,
               parent |-> ListedParents(theme)[1],
               b      |-> b.info,
               h      |-> h.info])))

(* C11: with A inheriting [B] and B listing no parents, an icon absent     *)
(* from A and from B and present in a declared subdirectory of hicolor is  *)
(* returned by the themed traversal, from hicolor and with the size and    *)
(* scale of hicolor's subdirectory rule, not by the global fallback.       *)
C11_ResolvedThroughSentinel ==
    Settled =>
        \A ch \in {ChainOfOneParent} :
            (/\ ch.ok
             /\ Hits(theme, ch.a, last.name) = {}
             /\ Hits(ch.parent, ch.b, last.name) = {}
             /\ Hits("hicolor", ch.h, last.name) # {}) =>
                /\ last.tier = "theme"
                /\ \E c \in Hits("hicolor", ch.h, last.name) :
                      /\ last.icon.Path = PathAt("hicolor", ch.h, last.name, c)
                      /\ last.icon.Size = directoryMapGet(ch.h, SubdirAt(ch.h, c)).Size
                      /\ last.icon.Scale = directoryMapGet(ch.h, SubdirAt(ch.h, c)).Scale

\* b is in hicolor and also at the top of the pixmap directory: hicolor's is returned
C11_Witness ==
    /\ Settled
    /\ scn = "inherit"
    /\ last.name = "b"
    /\ ChainOfOneParent.ok
    /\ ChainOfOneParent.parent = "B"
    /\ InSnapshot(Pixmaps, "/usr/share/pixmaps/b.png")
    /\ last.tier = "theme"
    /\ last.icon.Path = "/usr/share/icons/hicolor/48x48/apps/b.png"
    /\ last.icon.Size = 48 /\ last.icon.Scale = 1

-----------------------------------------------------------------------------
(* C12: hicolor is always searched by the theme-chain search of the        *)
(* primary theme, whatever the primary theme is (its descriptor may be     *)
(* missing), before the global fallback is tried: when lookupIcon finds    *)
(* the icon in hicolor, the call returns from the theme chain of the       *)
(* primary theme.                                                          *)
C12_SentinelAlwaysSearched ==
    Settled =>
        \A l \in {lookupIcon(World, last.name, last.size, last.scale, "hicolor")} :
            ~l.err => last.tier = "theme"

-----------------------------------------------------------------------------
(* The tiers of a call, stated one by one on the caches the call has left. *)

\* a call of the named entry point has just returned, and nothing out of the ordinary
\* happened while it ran
SettledCall(op) ==
    last.op = op /\ ~last.dropped /\ ~last.crashed /\ last.coherent

\* lookupIcon of every name of the list in every theme of the depth-first order from
\* themeName: the first theme with a match and in it the first name with a match
\* [found, icon, theme, name]
ChainFirst(themeName, names) ==
    Bind(PreOrder(themeName, 1), LAMBDA order :
    Bind([p \in (1..Len(order)) \X (1..Len(names)) |->
             Bind(lookupIcon(World, names[p[2]], last.size, last.scale, order[p[1]]),
                  LAMBDA l : [err |-> l.err, icon |-> l.icon])], LAMBDA each :
    Bind({p \in DOMAIN each : ~each[p].err}, LAMBDA finds :
         IF finds = {}
         THEN [found |-> FALSE, icon |-> ZeroIcon, theme |-> "", name |-> ""]
         ELSE Bind(CHOOSE p \in finds : \A q \in finds :
                       p[1] < q[1] \/ (p[1] = q[1] /\ p[2] <= q[2]), LAMBDA p :
                   [found |-> TRUE, icon |-> each[p].icon,
                    theme |-> order[p[1]], name |-> names[p[2]]]))))

\* lookupFallbackIcon of every name of the list: the first name that has a file
\* [found, icon]
GlobalFirst(names) ==
    Bind([j \in 1..Len(names) |->
             Bind(lookupFallbackIcon(World, names[j]), LAMBDA f :
                  [err |-> f.err, icon |-> f.icon])], LAMBDA each :
    Bind({j \in DOMAIN each : ~each[j].err}, LAMBDA finds :
         IF finds = {} THEN [found |-> FALSE, icon |-> ZeroIcon]
         ELSE [found |-> TRUE,
               icon  |-> each[CHOOSE j \in finds : \A k \in finds : j <= k].icon]))

(* C13: FindBestIcon returns, from the theme chain, the match of the first *)
(* theme in depth-first order in which any candidate has a match (exact or *)
(* closest-size), and within it of the earliest-listed candidate that has  *)
(* one, even if a later candidate matches the size exactly.                *)
C13_CandidatesBeforeParents ==
    SettledCall("FindBestIcon") =>
        \A ch \in {ChainFirst(theme, last.list)} :
            /\ ch.found => (last.tier = "theme" /\ last.icon = ch.icon)
            /\ ~ch.found => last.tier # "theme"

\* of [a, b] at (48,1), T holds a at size 32 only and b at 48: a's file is returned
C13_Witness ==
    /\ SettledCall("FindBestIcon")
    /\ scn = "best"
    /\ last.list = <<"a", "b">> /\ last.size = 48 /\ last.scale = 1
    /\ InSnapshot(Base1, "/usr/share/icons/T/32x32/apps/a.png")
    /\ InSnapshot(Base1, "/usr/share/icons/T/48x48/apps/b.png")
    /\ last.icon.Name = "a"
    /\ last.icon.Path = "/usr/share/icons/T/32x32/apps/a.png"
    /\ last.icon.Size = 32

-----------------------------------------------------------------------------
(* C14: FindIcon and FindBestIcon try their tiers in a fixed order and     *)
(* return the first success: the theme chain of the primary theme (all     *)
(* candidates), then the global fallback (per candidate in listed order),  *)
(* then the theme chain of the fallback theme, skipped when none is set.   *)
C14_TierOrder ==
    (SettledCall("FindIcon") \/ SettledCall("FindBestIcon")) =>
        \A ch \in {ChainFirst(theme, last.list)} :
        \A g \in {GlobalFirst(last.list)} :
        \A fb \in {IF fallbackTheme = ""
                   THEN [found |-> FALSE, icon |-> ZeroIcon]
                   ELSE ChainFirst(fallbackTheme, last.list)} :
            /\ ch.found => (last.tier = "theme" /\ last.icon = ch.icon)
            /\ (~ch.found /\ g.found) => (last.tier = "global" /\ last.icon = g.icon)
            /\ (~ch.found /\ ~g.found /\ fb.found) =>
                  (last.tier = "fallbackTheme" /\ last.icon = fb.icon)
            /\ (~ch.found /\ ~g.found /\ ~fb.found) =>
                  (last.tier = "none" /\ last.err /\ last.icon = ZeroIcon)
            /\ last.err <=> last.tier = "none"

\* of [a, b], b is in the theme chain and a only at the top of the pixmap directory:
\* the themed b is returned
C14_Witness ==
    /\ SettledCall("FindBestIcon")
    /\ scn = "best"
    /\ last.list = <<"a", "b">>
    /\ ~ChainFirst(theme, <<"a">>).found
    /\ GlobalFirst(<<"a">>).found
    /\ ~GlobalFirst(<<"b">>).found
    /\ last.tier = "theme"
    /\ last.icon.Name = "b"
    /\ last.icon.Path = "/usr/share/icons/T/48x48/apps/b.png"

\* no fallback theme is set and the icon is only in the theme that would be one: not found
C14_WitnessSkipped ==
    /\ SettledCall("FindIcon")
    /\ scn = "best"
    /\ fallbackTheme = ""
    /\ ChainFirst("Extra", last.list).found
    /\ last.err

-----------------------------------------------------------------------------
(* C15: the global fallback.                                               *)

\* the (base directory, extension) index pairs whose <base>/<name>.<ext> is in a snapshot
GlobalHits(iconName) ==
    {p \in (1..Len(GetBaseDirs)) \X (1..Len(extensions)) :
        InSnapshot(GetBaseDirs[p[1]],
                   FallbackIconPath(GetBaseDirs[p[1]], iconName, extensions[p[2]]))}

(* C15: an icon resolved by the global fallback has Path                   *)
(* <base>/<name>.<ext> for the first (base directory, extension) pair,     *)
(* base directories first and extensions in priority order within each,    *)
(* whose file exists; its Name is the requested name and its Size,         *)
(* MinSize, MaxSize and Scale are all zero.                                *)
C15_GlobalFallbackIcon ==
    (Settled /\ last.tier = "global") =>
        /\ GlobalHits(last.name) # {}
        /\ \E p \in GlobalHits(last.name) :
              /\ \A q \in GlobalHits(last.name) :
                    p[1] < q[1] \/ (p[1] = q[1] /\ p[2] <= q[2])
              /\ last.icon.Path =
                    FallbackIconPath(GetBaseDirs[p[1]], last.name, extensions[p[2]])
        /\ last.icon.Name = last.name
        /\ last.icon.Size = 0 /\ last.icon.MinSize = 0
        /\ last.icon.MaxSize = 0 /\ last.icon.Scale = 0

\* a.svg in the first base directory is returned, not a.png in the pixmap directory
C15_Witness ==
    /\ Settled
    /\ scn = "missing"
    /\ last.name = "a"
    /\ GlobalHits("a") = {<<1, 2>>, <<2, 1>>}
    /\ last.tier = "global"
    /\ last.icon = [Name |-> "a", Path |-> "/usr/share/icons/a.svg",
                    Size |-> 0, MinSize |-> 0, MaxSize |-> 0, Scale |-> 0]

-----------------------------------------------------------------------------
(* C16: Lookup(name) returns what FindIcon(name, DefaultSize,              *)
(* DefaultScale) returns, DefaultSize and DefaultScale being the values of *)
(* LookupConfig, 48 and 1 where unset or 0.                                *)
C16_LookupUsesDefaults ==
    SettledCall("Lookup") =>
        \A r \in {FindIcon(World, Config, last.name, defaultSize, defaultScale)} :
            r.err = last.err /\ r.icon = last.icon

-----------------------------------------------------------------------------
(* C17: idempotence of FindIcon, checked under SpecCache.                  *)

\* this step is a call of FindIcon with the arguments of the call before it
RepeatsFindIcon ==
    /\ prev.cur.op = "FindIcon"
    /\ last'.op = "FindIcon"
    /\ last'.name = prev.cur.name
    /\ last'.size = prev.cur.size
    /\ last'.scale = prev.cur.scale

\* every base directory is there and has a snapshot validated less than the interval ago
AllSnapshotsFresh ==
    \A b \in BaseDirSet :
        /\ fsPresent[b]
        /\ b \in DOMAIN dirCache
        /\ now - dirCache[b].lastStat < cacheValidCheckInterval

\* C17 as stated: a call of FindIcon repeating the arguments of the call before it,
\* less than the staleness interval after it, returns the same result and walks no
\* directory, whatever happened to the filesystem in between
C17_IdempotentWithinWindow ==
    [][(RepeatsFindIcon /\ last'.at - prev.cur.at < cacheValidCheckInterval) =>
          /\ last'.err = prev.cur.err
          /\ last'.icon = prev.cur.icon
          /\ last'.walks = 0]_vars

\* C17 amended: a call of FindIcon repeating the arguments of the call before it, made
\* while every base directory exists and has a snapshot validated less than the
\* staleness interval ago, returns the same result, walks no directory and leaves the
\* snapshots as they are, whatever icon files were added or removed in between
C17_IdempotentWhileFresh ==
    [][(RepeatsFindIcon /\ AllSnapshotsFresh) =>
          /\ last'.err = prev.cur.err
          /\ last'.icon = prev.cur.icon
          /\ last'.walks = 0
          /\ dirCache' = dirCache]_vars

\* two calls one after the other, the filesystem changed in between and the snapshots
\* not yet due: the second call returns the file of the first, which is gone from disk
C17_Witness ==
    /\ scn = "cache"
    /\ prev.old.op = "FindIcon" /\ prev.cur.op = "FindIcon" /\ last = prev.cur
    /\ prev.cur.name = prev.old.name
    /\ prev.cur.size = prev.old.size /\ prev.cur.scale = prev.old.scale
    /\ prev.cur.ops > prev.old.ops
    /\ AllSnapshotsFresh
    /\ \A b \in BaseDirSet : dirCache[b].lastStat <= prev.old.at
    /\ ~last.err
    /\ last.icon = prev.old.icon
    /\ last.walks = 0
    /\ \A b \in BaseDirSet : last.icon.Path \notin fsFiles[b]

-----------------------------------------------------------------------------
(* C18: bounded staleness of the snapshots, checked under SpecCache.       *)

\* this step is an existence query for a file that is on disk under a base directory
\* whose snapshot was taken before the file was added: the snapshot lacks the file and
\* the base directory's modification time is no longer the snapshot's
QueriesAddedFile ==
    /\ last'.op = "fileExists"
    /\ last'.dir \in DOMAIN dirCache
    /\ fsPresent[last'.dir]
    /\ last'.name \in fsFiles[last'.dir]
    /\ last'.name \notin dirCache[last'.dir].files
    /\ fsMtime[last'.dir] # dirCache[last'.dir].mtime

(* C18: after a file is added under a cached base directory and the        *)
(* directory's modification time has changed, an existence query made at   *)
(* least the staleness interval after the snapshot's last validation walks *)
(* the directory again and reports the file as existing; a query made      *)
(* earlier answers from the old snapshot, without a walk, and reports it   *)
(* absent.                                                                 *)
C18_BoundedStaleness ==
    [][QueriesAddedFile =>
          IF now - dirCache[last'.dir].lastStat >= cacheValidCheckInterval
          THEN /\ ~last'.err
               /\ last'.walks = 1
               /\ last'.dir \in DOMAIN dirCache'
               /\ last'.name \in dirCache'[last'.dir].files
               /\ dirCache'[last'.dir].lastStat = now
               /\ dirCache'[last'.dir].mtime = fsMtime[last'.dir]
          ELSE /\ last'.err
               /\ last'.walks = 0
               /\ dirCache' = dirCache]_vars

\* a query made before the interval had elapsed reported the added file absent, and the
\* next query, made once it had elapsed, has walked the directory again and found it
C18_Witness ==
    /\ scn = "cache"
    /\ prev.old.op = "fileExists" /\ prev.cur = last /\ last.op = "fileExists"
    /\ prev.old.name = last.name /\ prev.old.dir = last.dir
    /\ prev.old.ops = last.ops /\ last.ops > 0
    /\ prev.old.err /\ prev.old.walks = 0
    /\ last.at > prev.old.at
    /\ ~last.err
    /\ last.walks = 1
    /\ last.name \in fsFiles[last.dir]
    /\ dirCache[last.dir].mtime = fsMtime[last.dir]
    /\ dirCache[last.dir].lastStat = now

-----------------------------------------------------------------------------
(* C19: FindIcon terminates for every finite set of themes, also when the  *)
(* inherits lists form a cycle: no call exhausts the stack, each theme     *)
(* being attempted a bounded number of times.                              *)
C19_TerminatesOnCycles ==
    last.op = "FindIcon" => ~last.crashed


-----------------------------------------------------------------------------
(* The order of the base directories.                                      *)

\* the elements of a path between its slashes, empty ones left out
RECURSIVE Elements(_)
Elements(p) ==
    IF p = <<>> THEN <<>>
    ELSE IF p[1] = "/" THEN Elements(Tail(p))
    ELSE <<p[1]>> \o Elements(Tail(p))

\* two spellings of one path: both absolute or both relative, same elements
SamePath(p, q) ==
    /\ (p # <<>> /\ p[1] = "/") <=> (q # <<>> /\ q[1] = "/")
    /\ Elements(p) = Elements(q)

\* the colon-separated entries of XDG_DATA_DIRS
Entries(xdgDataDirs) == Split(xdgDataDirs)

\* <HOME>/.icons when HOME is set, then <entry>/icons for each entry, then the
\* pixmap directory, as the sentence spells them
ListedBaseDirs(homeDir, xdgDataDirs) ==
    LET entries == Entries(xdgDataDirs)
    IN  (IF homeDir # <<>> THEN <<homeDir \o <<"/", ".icons">>>> ELSE <<>>)
        \o [i \in 1..Len(entries) |-> entries[i] \o <<"/", "icons">>]
        \o <<pixmapDir>>

RECURSIVE NonEmptyOf(_)
NonEmptyOf(entries) ==
    IF entries = <<>> THEN <<>>
    ELSE IF entries[1] = <<>> THEN NonEmptyOf(Tail(entries))
    ELSE <<entries[1]>> \o NonEmptyOf(Tail(entries))

(* C21: GetBaseDirs skips empty and unset configuration entries: an unset  *)
(* HOME, an unset or empty XDG_DATA_DIRS and an empty entry between colons *)
(* contribute no element, so the result has one element per non-empty     *)
(* entry besides home and pixmaps, and none of them is the relative icons. *)
C21_EmptyEntriesSkipped ==
    env.called =>
        LET dirs == env.baseDirs
            h    == IF env.home # <<>> THEN 1 ELSE 0
        IN  /\ Len(dirs) = h + Len(NonEmptyOf(Entries(env.dataDirs))) + 1
            /\ \A i \in 1..Len(dirs) : Str(dirs[i]) # "icons"


-----------------------------------------------------------------------------
(* What a call of the public API hands back.                               *)

\* the paths the lookups build for iconName in base directory directory: the global
\* one, and the themed ones of every theme loaded
PathsOf(directory, iconName) ==
    {FallbackIconPath(directory, iconName, e) : e \in Range(extensions)}
    \cup UNION {{ThemedIconPath(directory, t, d, iconName, e) :
                    d \in Range(AllDirectories(themeInfoCache[t])),
                    e \in Range(extensions)} : t \in DOMAIN themeInfoCache}

(* C22: a FindIcon or FindBestIcon call that returns no error returns an    *)
(* Icon named after the requested name (one of the candidates), with a      *)
(* non-empty Path of the form <base>/<theme>/<subdir>/<Name>.<ext> or       *)
(* <base>/<Name>.<ext>, base a base directory and ext a configured          *)
(* extension, that the snapshot of that base directory holds; a call that   *)
(* returns an error returns the zero Icon, also for an empty list.          *)
C22_ResultWellFormed ==
    (last.op \in {"FindIcon", "FindBestIcon"} /\ ~last.crashed) =>
        /\ last.err => last.icon = ZeroIcon
        /\ ~last.err =>
              /\ last.icon.Name \in Range(last.list)
              /\ last.icon.Path # ""
              /\ \E b \in Range(GetBaseDirs) :
                    /\ last.icon.Path \in PathsOf(b, last.icon.Name)
                    /\ InSnapshot(b, last.icon.Path)

\* FindBestIcon of two candidates returns the second one, from a theme
C22_Witness ==
    /\ last.op = "FindBestIcon" /\ ~last.err
    /\ last.list = <<"a", "b">>
    /\ last.icon.Name = "b"
    /\ last.icon.Path = ThemedIconPath(Base1, "T", "48x48/apps", "b", "png")

\* FindBestIcon of no candidate returns an error and the zero Icon
C22_WitnessEmptyList ==
    last.op = "FindBestIcon" /\ last.list = <<>> /\ last.err /\ last.icon = ZeroIcon


-----------------------------------------------------------------------------
(* Re-validation of the snapshots.                                         *)

\* an existence query has just returned, and while it ran the re-validation found
\* that its base directory could not be stat'ed
QueryFoundDirectoryGone == last.op = "fileExists" /\ last.dropped

(* C23: when the re-validation of a cached base directory finds that the   *)
(* directory can no longer be stat'ed, the snapshot is removed from the    *)
(* table and that same existence query reports false.                      *)
C23_GoneDirectoryReportsFalse ==
    QueryFoundDirectoryGone =>
        /\ last.dir \notin DOMAIN dirCache
        /\ last.err


(* C24: once a Theme Record has been cached for a theme name it is never   *)
(* invalidated: whatever step is taken, a directory-snapshot refresh       *)
(* included, the theme table still holds the same record for that name.    *)
C24_ThemeRecordsNeverInvalidated ==
    [][\A t \in DOMAIN themeInfoCache :
          /\ t \in DOMAIN themeInfoCache'
          /\ themeInfoCache'[t] = themeInfoCache[t]]_vars


\* this step is an existence query that re-validates a stale snapshot of a base
\* directory whose modification time is still the snapshot's
RevalidatesUnchanged ==
    /\ last'.op = "fileExists"
    /\ last'.dir \in DOMAIN dirCache
    /\ now - dirCache[last'.dir].lastStat >= cacheValidCheckInterval
    /\ fsPresent[last'.dir]
    /\ fsMtime[last'.dir] = dirCache[last'.dir].mtime

(* C29: when a stale snapshot is re-validated and the base directory's     *)
(* modification time equals the snapshot's, only lastStat is set to now:   *)
(* nothing is walked, the snapshot's files and mtime, the other snapshots  *)
(* and the theme table stay as they are, and the query is answered from    *)
(* the files the snapshot already held.                                    *)
C29_UnchangedOnlyRestamps ==
    [][RevalidatesUnchanged =>
          /\ last'.walks = 0
          /\ dirCache' = [dirCache EXCEPT ![last'.dir].lastStat = now]
          /\ themeInfoCache' = themeInfoCache
          /\ last'.err <=> last'.name \notin dirCache[last'.dir].files]_vars

\* the first query of a run, made once the interval has passed, for a file added
\* without a change of the base directory's modification time: the snapshot is
\* stamped again, not walked, and the file stays invisible
C29_Witness ==
    /\ scn = "cache"
    /\ last.op = "fileExists" /\ prev.cur = last /\ prev.old = NoCall
    /\ now >= cacheValidCheckInterval
    /\ last.name \in fsFiles[last.dir]
    /\ last.err
    /\ last.walks = 0
    /\ last.dir \in DOMAIN dirCache
    /\ dirCache[last.dir].lastStat = now
    /\ dirCache[last.dir].mtime = fsMtime[last.dir]
    /\ last.name \notin dirCache[last.dir].files
    /\ themeInfoCache = <<>>


-----------------------------------------------------------------------------
(* The sentinel theme in the Theme Records.                                *)

\* the names the descriptor's Inherits key lists, none when the key is absent
Listed == IF th.Inherits.has THEN th.Inherits.val ELSE <<>>

(* C30: the Theme Record read for a theme other than hicolor has the       *)
(* descriptor's Inherits list unchanged when that list names hicolor, and  *)
(* the list with hicolor appended as last element otherwise; the record of *)
(* hicolor itself has the descriptor's list with nothing appended.         *)
C30_SentinelAppended ==
    (th.read /\ ~th.err) =>
        IF th.theme = "hicolor" \/ "hicolor" \in Range(Listed)
        THEN th.info.Inherits = Listed
        ELSE th.info.Inherits = Listed \o <<"hicolor">>

\* hicolor is appended after the names listed, a differently spelled one included
C30_Witness ==
    /\ th.read /\ ~th.err
    /\ th.theme = "A"
    /\ Listed = <<"B", "Hicolor">>
    /\ th.info.Inherits = <<"B", "Hicolor", "hicolor">>

\* a list that names hicolor before another parent is left as it is
C30_WitnessListed ==
    /\ th.read /\ ~th.err
    /\ th.theme = "A"
    /\ Listed = <<"hicolor", "B">>
    /\ th.info.Inherits = <<"hicolor", "B">>


-----------------------------------------------------------------------------
(* The locking discipline of concurrent calls, checked under SpecConc.     *)

\* goroutine g is about to write the theme table or the snapshot table: the store of
\* a Theme Record, the clearing and the store of cacheBaseDirectory, the delete
WritesTable(g) == conc.g[g].pc \in {"twrite", "refresh", "delete"}

\* goroutine g is about to read or write the theme table or the snapshot table
AccessesTable(g) == WritesTable(g) \/ conc.g[g].pc \in {"tread", "read"}

\* the table an access is to; cacheBaseDirectory clears one and stores into the other
TablesOf(g) ==
    CASE conc.g[g].pc \in {"twrite", "tread"} -> {"themeInfoCache"}
      [] conc.g[g].pc \in {"read", "delete"} -> {"dirCache"}
      [] conc.g[g].pc = "refresh" -> {"themeInfoCache", "dirCache"}
      [] OTHER -> {}

(* C25: every insertion, replacement, clearing or eviction of an entry of  *)
(* the theme table or of the snapshot table is made while the exclusive    *)
(* lock is held, so no write to a table is concurrent with another         *)
(* goroutine's read or write of that table.                                *)
C25_TableWritesUnderLock ==
    \A g \in Goroutines :
        WritesTable(g) =>
            /\ conc.mu.w = g
            /\ \A h \in Goroutines \ {g} :
                  AccessesTable(h) => TablesOf(g) \cap TablesOf(h) = {}


\* goroutine g is in the re-validation of a snapshot: the stat that decides on the
\* refresh, or the walk
Revalidates(g) == conc.g[g].pc \in {"stat", "refresh"}

(* C26: the stat of the base directory that decides on a refresh and the   *)
(* walk that performs it run under the exclusive lock, so that concurrent  *)
(* lookups against one stale base directory serialize: no directory is     *)
(* walked twice for one change of its modification time.                   *)
C26_OneWalkPerChange ==
    /\ \A g \in Goroutines : Revalidates(g) => conc.mu.w = g
    /\ ~conc.rewalked


\* goroutine g is about to read cacheEntry.lastStat and compare it with now
ReadsLastStat(g) ==
    \/ conc.g[g].pc = "stale" /\ conc.g[g].exists
    \/ conc.g[g].pc = "recheck"

\* goroutine h is about to store cacheEntry.lastStat of the snapshot goroutine g looks at
StampsEntryOf(h, g) ==
    conc.g[h].pc = "stamp" /\ conc.g[h].cacheEntry = conc.g[g].cacheEntry

(* C27: every read of a snapshot's lastStat that is compared against now   *)
(* to decide on a refresh is made while the shared lock is held, so it is  *)
(* never concurrent with another goroutine's locked write of lastStat.     *)
C27_StalenessReadUnderLock ==
    \A g \in Goroutines :
        ReadsLastStat(g) =>
            /\ g \in conc.mu.r
            /\ \A h \in Goroutines \ {g} : ~StampsEntryOf(h, g)


\* goroutine g holds il.mu, as reader or as writer
Holds(g) == conc.mu.w = g \/ g \in conc.mu.r

\* goroutine g is at an il.mu.RLock() or il.mu.Lock() it has not been granted yet
Waits(g) == conc.g[g].pc \in DOMAIN AfterRLock \cup DOMAIN AfterLock

(* C28: under every interleaving of concurrent calls the lock is released  *)
(* on every exit path, a call holds nothing when it returns and never asks *)
(* for the lock while it holds it, so no call blocks forever: a call that  *)
(* waits for the lock is granted it and every call returns, unless the     *)
(* runtime has ended the process.                                          *)
C28_NoCallBlocksForever ==
    /\ [](\A g \in Goroutines :
             (conc.g[g].pc = "idle" \/ Waits(g)) => ~Holds(g))
    /\ \A g \in Goroutines :
          /\ Waits(g) ~> (Holds(g) \/ conc.fatal)
          /\ (conc.g[g].pc # "idle") ~> (conc.g[g].pc = "idle" \/ conc.fatal)

\* a goroutine waits for the exclusive lock, new readers kept out, while the other
\* one still holds the lock as a reader
C28_Witness ==
    \E g \in Goroutines : \E h \in Goroutines \ {g} :
        /\ conc.g[g].pc \in DOMAIN AfterLock
        /\ conc.mu.pend = g
        /\ h \in conc.mu.r
        /\ ~conc.fatal

\* the early return of fileExists: the base directory is gone, no snapshot could be
\* made, false is returned and the lock is free
C28_WitnessEarlyReturn ==
    \E g \in Goroutines :
        /\ conc.g[g].pc = "idle" /\ conc.g[g].ret = "false" /\ conc.g[g].cacheEntry = 0
        /\ conc.g[g].dir # ""
        /\ conc.mu = [w |-> 0, r |-> {}, pend |-> 0]

-----------------------------------------------------------------------------
(* The two sizing functions against each other.                            *)

\* the scaled sizes the two functions multiply out all fit the int width
ProductsFit ==
    /\ InInt(ReqScaled)
    /\ \A n \in {sz.rule.Size, sz.rule.MinSize, sz.rule.MaxSize,
                 sz.rule.Size - sz.rule.Threshold, sz.rule.Size + sz.rule.Threshold} :
          InInt(n) /\ InInt(RuleScaled(n))

(* C38: for every Subdirectory Rule with positive scale and every request, *)
(* directoryMatchesSize(rule, size, scale) = true implies                  *)
(* directorySizeDistance(rule, size, scale) = 0.                           *)
C38_MatchImpliesZeroDistance ==
    (/\ MatchesApplied /\ DistanceApplied
     /\ sz.rule.Scale > 0
     /\ sz.matches) => sz.distance = 0

(* C38, amended: a match implies distance 0 whenever the request's and the *)
(* rule's scaled sizes fit the int width.                                  *)
C38_MatchImpliesZeroDistanceInRange ==
    (/\ MatchesApplied /\ DistanceApplied
     /\ sz.rule.Scale > 0
     /\ ProductsFit
     /\ sz.matches) => sz.distance = 0

\* Threshold 32 +- 2 with MinSize 48 at scale 2, request (30, 2): a match at distance 0,
\* decided by the threshold bounds and not by MinSize
C38_Witness ==
    /\ MatchesApplied /\ DistanceApplied
    /\ sz.rule.Type = "Threshold" /\ sz.rule.Size = 32 /\ sz.rule.Threshold = 2
    /\ sz.rule.MinSize = 48 /\ sz.rule.Scale = 2
    /\ sz.size = 30 /\ sz.scale = 2
    /\ sz.matches
    /\ sz.distance = 0

(* C39: directorySizeDistance returns a non-negative integer for every     *)
(* request with positive size and scale and every Subdirectory Rule with   *)
(* positive scale, non-negative threshold and minSize <= size <= maxSize.  *)
C39_DistanceNonNegative ==
    (/\ DistanceApplied
     /\ sz.size > 0 /\ sz.scale > 0
     /\ sz.rule.Scale > 0 /\ sz.rule.Threshold >= 0
     /\ sz.rule.MinSize <= sz.rule.Size /\ sz.rule.Size <= sz.rule.MaxSize) =>
        sz.distance >= 0

-----------------------------------------------------------------------------
(* Loading Theme Records, checked under SpecLoad.                          *)

\* the descriptor has [Icon Theme] with Name and Directories, and a section with an
\* integer Size for every subdirectory it lists
Complete(d) ==
    /\ d.loads /\ d.hasMain /\ d.Name.has /\ d.Directories.has
    /\ \A dir \in Range(d.Directories.val)
                    \cup (IF d.ScaledDirectories.has THEN Range(d.ScaledDirectories.val)
                          ELSE {}) :
          /\ dir \in DOMAIN d.sections
          /\ d.sections[dir].Size.has
          /\ d.sections[dir].Size.ok

\* the positions in GetBaseDirs of the base directories holding a complete descriptor
Usable(themeName) ==
    {i \in 1..Len(GetBaseDirs) :
        /\ <<GetBaseDirs[i], themeName>> \in DOMAIN ld.idx
        /\ Complete(ld.idx[<<GetBaseDirs[i], themeName>>])}

\* the descriptor of themeName in the i-th base directory
DescriptorAt(themeName, i) == ld.idx[<<GetBaseDirs[i], themeName>>]

(* C31: every Theme Record in the theme table has a Subdirectory Rule for  *)
(* every name in directories and scaledDirectories, and is the record of a *)
(* complete descriptor: a descriptor that lacks the section or the Size of *)
(* a listed subdirectory, or the main section, Name or Directories, is     *)
(* never cached, not even partially.                                       *)
C31_OnlyCompleteRecordsCached ==
    scn \in LoadInstallations =>
        \A t \in DOMAIN themeInfoCache :
            /\ \A dir \in Range(AllDirectories(themeInfoCache[t])) :
                  dir \in DOMAIN themeInfoCache[t].directoryMap
            /\ \E i \in Usable(t) :
                  /\ themeInfoCache[t].Name = DescriptorAt(t, i).Name.val
                  /\ themeInfoCache[t].Directories = DescriptorAt(t, i).Directories.val
                  /\ DOMAIN themeInfoCache[t].directoryMap
                        = Range(AllDirectories(themeInfoCache[t]))

\* getThemeInfo("A") has returned an error: the only descriptor of A lists d1 and d2 and
\* lacks the Size of d1, and nothing of it is cached
C31_Witness ==
    /\ scn \in LoadInstallations
    /\ last.op = "getThemeInfo" /\ last.name = "A" /\ last.err
    /\ <<Base1, "A">> \in DOMAIN ld.idx
    /\ <<Pixmaps, "A">> \notin DOMAIN ld.idx
    /\ LET d == ld.idx[<<Base1, "A">>]
       IN  /\ d.loads /\ d.hasMain /\ d.Name.has /\ d.Directories.has
           /\ "d1" \in DOMAIN d.sections /\ "d2" \in DOMAIN d.sections
           /\ ~d.sections["d1"].Size.has
    /\ "A" \notin DOMAIN themeInfoCache

\* a record of A is cached with the rules of both d1 and d2
C31_WitnessCached ==
    /\ scn \in LoadInstallations
    /\ "A" \in DOMAIN themeInfoCache
    /\ DOMAIN themeInfoCache["A"].directoryMap = {"d1", "d2"}

(* C32: getThemeInfo returns the record parsed from the first base         *)
(* directory, in GetBaseDirs order, whose <base>/<theme>/index.theme       *)
(* exists and parses completely, trying the next base directory after an   *)
(* unusable descriptor, and returns theme-not-found only when no base      *)
(* directory has a usable descriptor.                                      *)
C32_FirstUsableDescriptor ==
    (scn \in LoadInstallations /\ last.op = "getThemeInfo") =>
        /\ ld.ret.theme = last.name
        /\ ld.ret.err = last.err
        /\ IF Usable(last.name) = {}
           THEN /\ ld.ret.err
                /\ last.name \notin DOMAIN themeInfoCache
           ELSE \E i \in Usable(last.name) :
                  /\ \A j \in Usable(last.name) : i <= j
                  /\ ~ld.ret.err
                  /\ ld.ret.info.Name = DescriptorAt(last.name, i).Name.val
                  /\ ld.ret.info.Directories = DescriptorAt(last.name, i).Directories.val
                  /\ themeInfoCache[last.name] = ld.ret.info

\* the descriptor of A in the first base directory lacks a Size, the one in the second
\* is complete: getThemeInfo("A") returns the second one's record
C32_Witness ==
    /\ scn \in LoadInstallations
    /\ last.op = "getThemeInfo" /\ last.name = "A"
    /\ <<Base1, "A">> \in DOMAIN ld.idx
    /\ ld.idx[<<Base1, "A">>].loads
    /\ Usable("A") = {Len(GetBaseDirs)}
    /\ ~ld.ret.err
    /\ ld.ret.info.Name = "A2"

\* both base directories hold a complete descriptor: the first one's record is returned
C32_WitnessBoth ==
    /\ scn \in LoadInstallations
    /\ last.op = "getThemeInfo" /\ last.name = "A"
    /\ Usable("A") = {1, Len(GetBaseDirs)}
    /\ ld.ret.info.Name = "A"

\* every descriptor of B is unusable: getThemeInfo("B") says theme not found
C32_WitnessNotFound ==
    /\ scn \in LoadInstallations
    /\ last.op = "getThemeInfo" /\ last.name = "B"
    /\ <<Base1, "B">> \in DOMAIN ld.idx
    /\ Usable("B") = {}
    /\ ld.ret.err

\* the icon file of C and the one in the pixmaps directory
IconOfC == ThemedIconPath(Base1, "C", "d1", "a", "png")
IconOfPixmaps == FallbackIconPath(Pixmaps, "a", "png")

(* C33: a parent theme in an inherits list whose descriptor is missing or  *)
(* unusable is skipped: the remaining parents in the list are still        *)
(* searched, and then the later tiers.  Here A inherits B and C, A loads   *)
(* and holds no icon, and B does not load.                                 *)
C33_UnusableParentSkipped ==
    (/\ scn \in LoadInstallations
     /\ last.op \in {"FindIcon", "FindBestIcon"}
     /\ Usable("A") # {}
     /\ Usable("B") = {}) =>
        /\ IconOfC \in fsFiles[Base1] =>
              /\ ~last.err
              /\ last.tier = "theme"
              /\ last.icon.Path = IconOfC
        /\ (IconOfC \notin fsFiles[Base1] /\ IconOfPixmaps \in fsFiles[Pixmaps]) =>
              /\ ~last.err
              /\ last.tier = "global"
              /\ last.icon.Path = IconOfPixmaps
        /\ (IconOfC \notin fsFiles[Base1] /\ IconOfPixmaps \notin fsFiles[Pixmaps]) =>
              last.err

\* B has a descriptor that lacks a Size; FindIcon finds the icon in C, the next parent
C33_Witness ==
    /\ scn \in LoadInstallations
    /\ last.op = "FindIcon"
    /\ Usable("A") # {}
    /\ <<Base1, "B">> \in DOMAIN ld.idx
    /\ Usable("B") = {}
    /\ ~last.err
    /\ last.icon.Path = IconOfC

\* B has no descriptor at all and C holds no icon; FindBestIcon goes on to the global
\* fallback tier
C33_WitnessLaterTier ==
    /\ scn \in LoadInstallations
    /\ last.op = "FindBestIcon"
    /\ Usable("A") # {}
    /\ <<Base1, "B">> \notin DOMAIN ld.idx
    /\ ~last.err
    /\ last.tier = "global"

\* the [d1] section the cached record of A was read from, when that is the first base
\* directory's
SectionOfA == ld.idx[<<Base1, "A">>].sections["d1"]
RuleOfA == themeInfoCache["A"].directoryMap["d1"]
CachedFromBase1 ==
    /\ scn \in LoadInstallations
    /\ "A" \in DOMAIN themeInfoCache
    /\ 1 \in Usable("A")

(* C34: a Subdirectory Rule loaded from a section that gives only Size has *)
(* scale 1, type Threshold, minSize = maxSize = size and threshold 2; each *)
(* optional key that is present overrides only its own field.              *)
C34_SectionDefaults ==
    CachedFromBase1 =>
        /\ RuleOfA.Size = SectionOfA.Size.val
        /\ RuleOfA.Scale = (IF SectionOfA.Scale.has THEN SectionOfA.Scale.val ELSE 1)
        /\ RuleOfA.Type = (IF SectionOfA.Type.has /\ SectionOfA.Type.val # ""
                           THEN SectionOfA.Type.val ELSE "Threshold")
        /\ RuleOfA.MinSize = (IF SectionOfA.MinSize.has THEN SectionOfA.MinSize.val
                              ELSE RuleOfA.Size)
        /\ RuleOfA.MaxSize = (IF SectionOfA.MaxSize.has THEN SectionOfA.MaxSize.val
                              ELSE RuleOfA.Size)
        /\ RuleOfA.Threshold = (IF SectionOfA.Threshold.has THEN SectionOfA.Threshold.val
                                ELSE 2)
        /\ SectionOfA = SizeOnlySection(48) =>
              RuleOfA = [Size |-> 48, Scale |-> 1, Type |-> "Threshold",
                         MaxSize |-> 48, MinSize |-> 48, Threshold |-> 2]

\* a section giving only Size = 48 has been loaded
C34_Witness ==
    /\ CachedFromBase1
    /\ SectionOfA = SizeOnlySection(48)
    /\ RuleOfA.Type = "Threshold" /\ RuleOfA.Threshold = 2 /\ RuleOfA.Scale = 1

\* a section giving Size and MaxSize only: MinSize stays at Size
C34_WitnessOneKey ==
    /\ CachedFromBase1
    /\ SectionOfA = [SizeOnlySection(48) EXCEPT !.MaxSize = IntKey(64)]
    /\ RuleOfA.MaxSize = 64 /\ RuleOfA.MinSize = 48

(* C35: every Subdirectory Rule in a cached Theme Record has type Fixed,   *)
(* Scalable or Threshold, whatever Type value the descriptor's section     *)
(* contains, so that the returns after the type switch in                  *)
(* directoryMatchesSize and directorySizeDistance are unreachable.         *)
C35_RuleTypesKnown ==
    \A t \in DOMAIN themeInfoCache :
        \A dir \in DOMAIN themeInfoCache[t].directoryMap :
            themeInfoCache[t].directoryMap[dir].Type \in {"Fixed", "Scalable", "Threshold"}

-----------------------------------------------------------------------------
(* The snapshot against the directory it was walked from, under SpecWalk.  *)

\* the snapshot in the table is the one the most recent walk produced
SnapshotOfLastWalk ==
    /\ scn \in WalkInstallations
    /\ Base1 \in DOMAIN dirCache
    /\ wk.pc \in {"idle", "queryWalk"}

\* something exists at path p: p and every directory above it up to the base directory
RECURSIVE ExistsAt(_, _)
ExistsAt(tree, p) ==
    p = Base1 \/ (tree[p] # "none" /\ ExistsAt(tree, Parent[p]))

\* the regular files beneath the base directory
RegularFilesBeneath(tree) ==
    {p \in WalkPaths : tree[p] = "file" /\ ExistsAt(tree, p)}

(* C36: after a refresh, a snapshot's knownPaths is exactly the set of     *)
(* regular-file paths beneath the base directory at walk time: directories *)
(* and other non-regular entries are not members, and every regular file   *)
(* beneath the base directory is a member.                                 *)
C36_KnownPathsAreRegularFiles ==
    SnapshotOfLastWalk => dirCache[Base1].files = RegularFilesBeneath(wk.walkTree)

(* C37: in every snapshot in the table, directoryModTime was read before   *)
(* the walk that produced knownPaths.  When every modification changes the *)
(* base directory's modification time, a snapshot whose directoryModTime   *)
(* equals the directory's holds exactly what a walk finds now, and the     *)
(* first re-validation after the staleness interval leaves a snapshot of   *)
(* the directory as it was when that re-validation began.                  *)
C37_ModTimeReadBeforeWalk ==
    (scn \in WalkInstallations /\ Base1 \in DOMAIN dirCache /\ ~wk.quiet) =>
        /\ dirCache[Base1].mtime <= fsMtime[Base1]
        /\ dirCache[Base1].mtime = fsMtime[Base1] =>
              dirCache[Base1].files = WalkDirIn(wk.tree, Base1)
        /\ (last.op = "fileExists" /\ wk.reval /\ wk.tree = wk.begun) =>
              dirCache[Base1].files = WalkDirIn(wk.tree, Base1)

\* an entry changed in the base directory after the walk and before the snapshot was
\* stored: the snapshot misses it and its directoryModTime is older than the directory's
C37_WitnessMissed ==
    /\ scn \in WalkInstallations
    /\ Base1 \in DOMAIN dirCache
    /\ wk.pc = "idle" /\ wk.missed /\ ~wk.quiet
    /\ dirCache[Base1].files # WalkDirIn(wk.tree, Base1)
    /\ dirCache[Base1].mtime < fsMtime[Base1]

\* the re-validation after the staleness interval has picked that change up
C37_Witness ==
    /\ scn \in WalkInstallations
    /\ Base1 \in DOMAIN dirCache
    /\ wk.missed /\ ~wk.quiet
    /\ last.op = "fileExists" /\ wk.reval /\ wk.tree = wk.begun
    /\ now >= cacheValidCheckInterval
    /\ dirCache[Base1].files = WalkDirIn(wk.tree, Base1)
    /\ dirCache[Base1].mtime = fsMtime[Base1]
    /\ fsMtime[Base1] > 0

====
